---- MODULE Spec2Model ----
(***************************************************************************)
(* Telegram relay bot: the ingestion handler (handle_new_message), the     *)
(* dedup set, the forwarding queue and the forwarding worker               *)
(* (_forwarding_worker / _forward_message) of TelegramRelayClient, with    *)
(* the message processor they call, and the calls that can be made on the  *)
(* MessageFilter and the TextReplacer of that processor.                   *)
(*                                                                         *)
(* Texts are sequences of one-character strings; "NL" stands for a line    *)
(* feed and "EMOJI" for a decorative symbol of Unicode category So.        *)
(***************************************************************************)
EXTENDS Integers, Sequences, FiniteSets, TLC

VARIABLES
    config,                 \* Config: the settings the hot path reads
    processed_message_ids,  \* dedup set: the ids of the modelled messages in it
    older_ids,              \* dedup set: how many further (earlier) ids it holds
    forwarding_queue,       \* asyncio.Queue of work items
    is_running,             \* TelegramRelayClient._is_running
    subscriptions,          \* event handlers registered on the transport client
    handler_calls,          \* invocations of _message_handler, in delivery order
    worker_pc,              \* where the forwarding worker is suspended
    worker_item,            \* the item the worker holds
    target_idx,             \* position of the for loop over target_groups
    retries,                \* the retry counter of the while loop
    item_log,               \* transport calls and sleeps made for worker_item
    enqueue_log,            \* history: every work item put on the queue
    dequeue_count,          \* history: how many items the worker has taken
    failures,               \* history: how many transport calls have raised
    limits,                 \* the bounds of this run: events delivered, calls failed,
                            \* process_message calls that raise
    client,                 \* self.client: 0 for None, else the number of the
                            \* TelegramClient object it refers to
    run_pc,                 \* where the task that calls start() and then
                            \* run_until_disconnected() is
    run_log,                \* history: what that task has met and done
    compiled_patterns,      \* MessageFilter._compiled_patterns
    compiled_replacements,  \* TextReplacer._compiled_replacements
    admin_log,              \* history: the calls made on the filter, the
                            \* replacer and the processor, with their results
    config_file,            \* the document in the configuration file
    task_done_count         \* history: calls of _forwarding_queue.task_done()

vars == <<config, processed_message_ids, older_ids, forwarding_queue,
          is_running, subscriptions, handler_calls, worker_pc, worker_item, target_idx,
          retries, item_log, enqueue_log, dequeue_count, failures, limits,
          client, run_pc, run_log, compiled_patterns, compiled_replacements,
          admin_log, config_file, task_done_count>>

----------------------------------------------------------------------------
(* Bounds *)

MaxEvents == 2          \* inbound events the transport delivers in a run
MaxRetriesCfg == 3      \* largest configured max_retries
MaxFailures == 3        \* send/forward calls the transport fails in a run
MaxReconnects == 2      \* times client.run_until_disconnected() raises in a run

----------------------------------------------------------------------------
(* Program constants *)

DedupCap == 1000        \* len(processed_message_ids) > 1000
EvictCount == 500       \* list(processed_message_ids)[:500]
ReconnectDelay == 30    \* asyncio.sleep(30) before a reconnect
RetryDelay == 60        \* asyncio.sleep(60) after a failed reconnect

----------------------------------------------------------------------------
(* Texts *)

NoneText == <<"<None>">>        \* Python None where a text is optional

WhiteChars == {" ", "NL", "TAB"}

AsciiChars == {"a", "b", "c", "A", "X", "x", " "}

\* _remove_emojis keeps a character when it is white space or printable
\* ASCII; "EMOJI" (category So, in 0x1F300..0x1F5FF) is skipped.
KeptChar(c) == c \in WhiteChars \/ c \in AsciiChars

RECURSIVE LStrip(_)
LStrip(s) ==
    IF s = <<>> THEN <<>>
    ELSE IF Head(s) \in WhiteChars THEN LStrip(Tail(s)) ELSE s

RECURSIVE RStrip(_)
RStrip(s) ==
    IF s = <<>> THEN <<>>
    ELSE IF s[Len(s)] \in WhiteChars THEN RStrip(SubSeq(s, 1, Len(s) - 1)) ELSE s

Strip(s) == RStrip(LStrip(s))

remove_emojis(text) == Strip(SelectSeq(text, KeptChar))

\* Python's `pat in s` on strings
Contains(pat, s) ==
    \E i \in 1..(Len(s) - Len(pat) + 1) : SubSeq(s, i, i + Len(pat) - 1) = pat

StartsWith(s, pat) ==
    Len(pat) <= Len(s) /\ SubSeq(s, 1, Len(pat)) = pat

RECURSIVE InsertBetween(_, _)
InsertBetween(s, new) ==
    IF s = <<>> THEN new
    ELSE new \o <<Head(s)>> \o InsertBetween(Tail(s), new)

RECURSIVE ReplaceNonEmpty(_, _, _)
ReplaceNonEmpty(s, pat, new) ==
    IF s = <<>> THEN <<>>
    ELSE IF StartsWith(s, pat)
         THEN new \o ReplaceNonEmpty(SubSeq(s, Len(pat) + 1, Len(s)), pat, new)
         ELSE <<Head(s)>> \o ReplaceNonEmpty(Tail(s), pat, new)

\* Python's s.replace(pat, new): every non-overlapping occurrence, left to
\* right; an empty pat inserts new before every character and at the end.
str_replace(s, pat, new) ==
    IF pat = <<>> THEN InsertBetween(s, new) ELSE ReplaceNonEmpty(s, pat, new)

----------------------------------------------------------------------------
(* Configuration and inbound messages *)

Src1 == -1001
Src2 == -1002
Unlisted == -1999
Tgt1 == -2001
Tgt2 == -2002
Topic2 == 7

FloodSeconds == {3, 7}          \* FloodWaitError.seconds the server may send
DelayChoices == {0, 1}          \* settings.forward_delay

TxtAlert == <<"EMOJI", "a", "b", "EMOJI">>
TxtPlain == <<"c", "EMOJI">>
TxtBlank == <<" ">>

\* A dict is a sequence of <<key, value>> pairs in insertion order.
Configs ==
    { [ source_groups |-> <<Src1, Src2>>,
        target_groups |-> <<Tgt1, Tgt2>>,
        target_topics |-> [t \in {Tgt2} |-> [topic_id |-> Topic2]],
        text_replacements |-> << <<  <<"EMOJI", "a", "b">>, <<"X">>  >> >>,
        group_specific_replacements |->
            [g \in {Src2} |-> << <<  <<"c">>, <<"X", "X">>  >> >>],
        filters |-> [enabled |-> TRUE, case_sensitive |-> FALSE,
                     keywords |-> << <<"a", "b">> >>,
                     group_specific |-> [g \in {} |-> <<>>]],
        enable_text_processing |-> TRUE,
        enable_media_forwarding |-> TRUE,
        max_retries |-> r,
        forward_delay |-> d ] : r \in 1..MaxRetriesCfg, d \in DelayChoices }

Messages ==
    { [id |-> 1, chat_id |-> Src1, text |-> TxtAlert, caption |-> <<>>, media |-> FALSE],
      [id |-> 2, chat_id |-> Src1, text |-> <<>>, caption |-> <<>>, media |-> TRUE],
      [id |-> 1, chat_id |-> Src2, text |-> TxtPlain, caption |-> <<>>, media |-> TRUE],
      [id |-> 3, chat_id |-> Src2, text |-> TxtBlank, caption |-> <<>>, media |-> FALSE],
      [id |-> 4, chat_id |-> Unlisted, text |-> TxtPlain, caption |-> <<>>, media |-> FALSE] }

\* variant: any chat counts as a source group
InSeq_any(x, s) == s # <<>>

\* Python's `x in s` on a list
InSeq(x, s) == \E i \in 1..Len(s) : s[i] = x

\* Config.validate_config: the set of error messages
validate_config(c) ==
    (IF c.source_groups = <<>> THEN {"No source groups configured"} ELSE {})
    \cup (IF c.target_groups = <<>> THEN {"No target groups configured"} ELSE {})
    \cup (IF c.filters.enabled /\ c.filters.keywords = <<>>
              /\ DOMAIN c.filters.group_specific = {}
           THEN {"Keyword filtering is enabled but no keywords configured"} ELSE {})
    \cup (IF c.forward_delay < 0 THEN {"Forward delay cannot be negative"} ELSE {})
    \cup (IF c.max_retries < 1 THEN {"Max retries must be at least 1"} ELSE {})

----------------------------------------------------------------------------
(* MessageFilter *)

NoGroup == 0                    \* source_group_id = None

\* \w of the re module among the characters used
WordChars == {"a", "b", "c", "A", "X", "x"}

\* str.lower() on one character
LowerChar(ch) ==
    CASE ch = "A" -> "a"
      [] ch = "X" -> "x"
      [] OTHER -> ch

lower(s) == [i \in 1..Len(s) |-> LowerChar(s[i])]

\* is the character at position p of s a word character; positions outside
\* the string count as non-word
IsWordAt(s, p) == p \in 1..Len(s) /\ s[p] \in WordChars

\* \b between positions p - 1 and p
Boundary(s, p) == IsWordAt(s, p - 1) # IsWordAt(s, p)

\* re.search(rf'\b{re.escape(keyword)}\b', text, flags)
word_search(keyword, ignorecase, text) ==
    LET k == IF ignorecase THEN lower(keyword) ELSE keyword
        t == IF ignorecase THEN lower(text) ELSE text
    IN  \E i \in 1..(Len(text) - Len(keyword) + 1) :
            /\ SubSeq(t, i, i + Len(keyword) - 1) = k
            /\ Boundary(text, i)
            /\ Boundary(text, i + Len(keyword))

\* a compiled pattern: the keyword it was built from and its flags
compile_pattern(keyword, c) ==
    [keyword |-> keyword, ignorecase |-> ~c.filters.case_sensitive]

\* pattern.search(text)
pattern_search(pattern, text) ==
    word_search(pattern.keyword, pattern.ignorecase, text)

\* MessageFilter._update_patterns: the new value of _compiled_patterns
update_patterns(c) ==
    [i \in 1..Len(c.filters.keywords) |-> compile_pattern(c.filters.keywords[i], c)]

\* set(self.config.keywords)
KeywordSet(c) == {c.filters.keywords[i] : i \in 1..Len(c.filters.keywords)}

\* MessageFilter._needs_pattern_update
needs_pattern_update(patterns, current_keywords) ==
    IF patterns = <<>> THEN current_keywords # {}
    ELSE Len(patterns) # Cardinality(current_keywords)

\* one keyword of _check_keywords_in_text
keyword_in_text(c, keyword, text) ==
    IF InSeq(" ", keyword)
    THEN IF ~c.filters.case_sensitive
         THEN Contains(lower(keyword), lower(text))
         ELSE Contains(keyword, text)
    ELSE word_search(keyword, ~c.filters.case_sensitive, text)

\* MessageFilter._check_keywords_in_text
check_keywords_in_text(c, text, keywords) ==
    IF keywords = <<>> \/ text = <<>> THEN FALSE
    ELSE \E i \in 1..Len(keywords) : keyword_in_text(c, keywords[i], text)

\* passes_keyword_filter, lines 58-60: an enabled group-specific entry exists
group_filter_applies(c, source_group_id) ==
    /\ source_group_id # NoGroup
    /\ source_group_id \in DOMAIN c.filters.group_specific
    /\ c.filters.group_specific[source_group_id].enabled

\* variant: the group list counts only while global filtering is enabled
group_filter_result_if_global(c, text, source_group_id) ==
    LET keywords == c.filters.group_specific[source_group_id].keywords
    IN  IF keywords # <<>>
        THEN ~c.filters.enabled
             \/ check_keywords_in_text(c, remove_emojis(text), keywords)
        ELSE FALSE

\* variant: an empty group list lets every text through
group_filter_result_open(c, text, source_group_id) ==
    LET keywords == c.filters.group_specific[source_group_id].keywords
    IN  IF keywords # <<>>
        THEN check_keywords_in_text(c, remove_emojis(text), keywords)
        ELSE TRUE

\* passes_keyword_filter, lines 62-74: the result under the group's entry
group_filter_result(c, text, source_group_id) ==
    LET keywords == c.filters.group_specific[source_group_id].keywords
    IN  IF keywords # <<>>
        THEN check_keywords_in_text(c, remove_emojis(text), keywords)
        ELSE FALSE

\* variant: the patterns are searched first and refreshed afterwards
global_filter_late(c, patterns, text) ==
    IF ~c.filters.enabled THEN [result |-> TRUE, patterns |-> patterns]
    ELSE IF c.filters.keywords = <<>> THEN [result |-> TRUE, patterns |-> patterns]
    ELSE IF text = <<>> THEN [result |-> FALSE, patterns |-> patterns]
    ELSE [result |-> \E i \in 1..Len(patterns) : pattern_search(patterns[i], text),
          patterns |-> IF needs_pattern_update(patterns, KeywordSet(c))
                       THEN update_patterns(c) ELSE patterns]

\* passes_keyword_filter, lines 77-104: the result and the pattern cache
\* the call leaves behind
global_filter(c, patterns, text) ==
    IF ~c.filters.enabled THEN [result |-> TRUE, patterns |-> patterns]
    ELSE IF c.filters.keywords = <<>> THEN [result |-> TRUE, patterns |-> patterns]
    ELSE IF text = <<>> THEN [result |-> FALSE, patterns |-> patterns]
    ELSE LET current == IF needs_pattern_update(patterns, KeywordSet(c))
                        THEN update_patterns(c) ELSE patterns
         IN  [result |-> \E i \in 1..Len(current) : pattern_search(current[i], text),
              patterns |-> current]

\* MessageFilter.passes_keyword_filter
passes_keyword_filter(c, patterns, text, source_group_id) ==
    IF group_filter_applies(c, source_group_id)
    THEN [result |-> group_filter_result(c, text, source_group_id),
          patterns |-> patterns]
    ELSE global_filter(c, patterns, text)

----------------------------------------------------------------------------
(* MessageProcessor *)

\* " ".join(text_parts).strip()
extract_message_text(message) ==
    LET t == message.text
        cap == IF message.media THEN message.caption ELSE <<>>
    IN  Strip(IF t # <<>> /\ cap # <<>> THEN t \o <<" ">> \o cap
              ELSE IF t # <<>> THEN t ELSE cap)

\* the for loop over a replacement dict: the first rule whose cleaned old
\* text occurs in the cleaned text is applied to the cleaned text
RECURSIVE apply_first_rule(_, _, _)
apply_first_rule(rules, clean_text, text) ==
    IF rules = <<>> THEN text
    ELSE LET clean_pattern == remove_emojis(Head(rules)[1])
             new_text == Head(rules)[2]
         IN  IF Contains(clean_pattern, clean_text)
             THEN str_replace(clean_text, clean_pattern, new_text)
             ELSE apply_first_rule(Tail(rules), clean_text, text)

\* variant: when no rule matches, the cleaned text is returned
apply_text_replacements_cleaned(c, text, source_group_id) ==
    IF source_group_id \in DOMAIN c.group_specific_replacements
       /\ c.group_specific_replacements[source_group_id] # <<>>
    THEN apply_first_rule(c.group_specific_replacements[source_group_id],
                          remove_emojis(text), remove_emojis(text))
    ELSE apply_first_rule(c.text_replacements, remove_emojis(text), remove_emojis(text))

\* variant: when no group rule matches, the global rules are tried
apply_text_replacements_fall_through(c, text, source_group_id) ==
    LET grouped == IF source_group_id \in DOMAIN c.group_specific_replacements
                   THEN apply_first_rule(c.group_specific_replacements[source_group_id],
                                         remove_emojis(text), text)
                   ELSE text
    IN  IF grouped # text THEN grouped
        ELSE apply_first_rule(c.text_replacements, remove_emojis(text), text)

\* variant: the loop over the rules is run again on its own result
apply_text_replacements_again(c, text, source_group_id) ==
    LET rules == IF source_group_id \in DOMAIN c.group_specific_replacements
                    /\ c.group_specific_replacements[source_group_id] # <<>>
                 THEN c.group_specific_replacements[source_group_id]
                 ELSE c.text_replacements
        once == apply_first_rule(rules, remove_emojis(text), text)
    IN  IF once = text THEN text ELSE apply_first_rule(rules, once, once)

apply_text_replacements_preserve_emojis(c, text, source_group_id) ==
    IF source_group_id \in DOMAIN c.group_specific_replacements
       /\ c.group_specific_replacements[source_group_id] # <<>>
    THEN apply_first_rule(c.group_specific_replacements[source_group_id],
                          remove_emojis(text), text)
    ELSE apply_first_rule(c.text_replacements, remove_emojis(text), text)

\* variant: the keyword filter decides first
process_message_filtered(c, message, source_group_id) ==
    LET message_text == extract_message_text(message)
    IN  IF message_text = <<>> THEN NoneText
        ELSE IF ~passes_keyword_filter(c, update_patterns(c), message_text,
                                       source_group_id).result
             THEN NoneText
        ELSE IF c.enable_text_processing
             THEN apply_text_replacements_preserve_emojis(c, message_text, source_group_id)
             ELSE message_text

process_message(c, message, source_group_id) ==
    LET message_text == extract_message_text(message)
    IN  IF message_text = <<>> THEN NoneText
        ELSE IF c.enable_text_processing
             THEN apply_text_replacements_preserve_emojis(c, message_text, source_group_id)
             ELSE message_text

----------------------------------------------------------------------------
(* TextReplacer and the Config methods it calls *)

\* a dict as a sequence of <<key, value>> pairs: `key in d`
HasKey(d, key) == \E i \in 1..Len(d) : d[i][1] = key

\* d[key] = value: an existing key keeps its position
DictSet(d, key, value) ==
    IF HasKey(d, key)
    THEN [i \in 1..Len(d) |-> IF d[i][1] = key THEN <<key, value>> ELSE d[i]]
    ELSE Append(d, <<key, value>>)

\* del d[key]
DictDel(d, key) == SelectSeq(d, LAMBDA kv : kv[1] # key)

\* text.split('\n')
RECURSIVE Split(_)
Split(s) ==
    IF \A i \in 1..Len(s) : s[i] # "NL" THEN <<s>>
    ELSE LET p == CHOOSE i \in 1..Len(s) :
                      s[i] = "NL" /\ \A j \in 1..(i - 1) : s[j] # "NL"
         IN  <<SubSeq(s, 1, p - 1)>> \o Split(SubSeq(s, p + 1, Len(s)))

\* '\n'.join(lines)
RECURSIVE Join(_)
Join(lines) ==
    IF lines = <<>> THEN <<>>
    ELSE IF Len(lines) = 1 THEN lines[1]
    ELSE lines[1] \o <<"NL">> \o Join(Tail(lines))

\* TextReplacer._remove_emojis: every line cleaned and stripped on its own
replacer_remove_emojis(text) ==
    LET lines == Split(text)
    IN  Join([i \in 1..Len(lines) |-> Strip(SelectSeq(lines[i], KeptChar))])

\* TextReplacer._update_replacements: the new value of _compiled_replacements
update_replacements(c) ==
    [i \in 1..Len(c.text_replacements) |->
        [old_text |-> c.text_replacements[i][1],
         new_text |-> c.text_replacements[i][2]]]

\* TextReplacer._needs_replacement_update
needs_replacement_update(compiled, current_replacements) ==
    IF compiled = <<>> THEN current_replacements # <<>>
    ELSE Len(compiled) # Len(current_replacements)

\* the inner for loop of replace_text: the first line that contains the
\* pattern has every occurrence in it replaced
replace_first_line(lines, clean_pattern, new_text) ==
    IF \E i \in 1..Len(lines) : Contains(clean_pattern, lines[i])
    THEN LET p == CHOOSE i \in 1..Len(lines) :
                      /\ Contains(clean_pattern, lines[i])
                      /\ \A j \in 1..(i - 1) : ~Contains(clean_pattern, lines[j])
         IN  [lines EXCEPT ![p] = str_replace(lines[p], clean_pattern, new_text)]
    ELSE lines

\* the outer for loop of replace_text: stop after the first rule that replaced
RECURSIVE replace_lines(_, _)
replace_lines(compiled, lines) ==
    IF compiled = <<>> THEN lines
    ELSE LET clean_pattern == replacer_remove_emojis(Head(compiled).old_text)
         IN  IF \E i \in 1..Len(lines) : Contains(clean_pattern, lines[i])
             THEN replace_first_line(lines, clean_pattern, Head(compiled).new_text)
             ELSE replace_lines(Tail(compiled), lines)

\* TextReplacer.replace_text: the result and the cache the call leaves behind
replace_text(c, compiled, text) ==
    IF text = <<>> \/ ~c.enable_text_processing
    THEN [result |-> text, compiled |-> compiled]
    ELSE LET current == IF needs_replacement_update(compiled, c.text_replacements)
                        THEN update_replacements(c) ELSE compiled
         IN  [result |-> Join(replace_lines(current, Split(replacer_remove_emojis(text)))),
              compiled |-> current]

\* Config.add_text_replacement: the configuration it leaves in memory
add_text_replacement(c, old_text, new_text) ==
    [c EXCEPT !.text_replacements = DictSet(@, old_text, new_text)]

\* TextReplacer.add_replacement; saved is what save_config() returned
add_replacement(c, compiled, old_text, new_text, saved) ==
    LET c2 == add_text_replacement(c, old_text, new_text)
    IN  [config |-> c2,
         compiled |-> IF saved THEN update_replacements(c2) ELSE compiled,
         result |-> saved, written |-> saved]

\* variant: removing a rule empties the mapping
remove_replacement_clear(c, compiled, old_text, saved) ==
    IF HasKey(c.text_replacements, old_text)
    THEN LET c2 == [c EXCEPT !.text_replacements = <<>>]
         IN  [config |-> c2, compiled |-> update_replacements(c2), result |-> TRUE,
              written |-> saved]
    ELSE [config |-> c, compiled |-> compiled, result |-> FALSE, written |-> FALSE]

\* TextReplacer.remove_replacement; saved is what save_config() returned,
\* which the method does not look at
remove_replacement(c, compiled, old_text, saved) ==
    IF HasKey(c.text_replacements, old_text)
    THEN LET c2 == [c EXCEPT !.text_replacements = DictDel(@, old_text)]
         IN  [config |-> c2, compiled |-> update_replacements(c2), result |-> TRUE,
              written |-> saved]
    ELSE [config |-> c, compiled |-> compiled, result |-> FALSE, written |-> FALSE]

----------------------------------------------------------------------------
(* State after TelegramRelayClient.__init__ *)

NoItem == [message |-> [id |-> 0, chat_id |-> 0, text |-> <<>>, caption |-> <<>>,
                        media |-> FALSE],
           processed_text |-> NoneText, is_media_only |-> FALSE]

\* The runs explored.  A run with several inbound events has max_retries = 1
\* and at most one failing transport call, and is observed either from the
\* first message on (older = 0) or after the relay has recorded DedupCap ids
\* of earlier messages whose events are not delivered again; a run with up to
\* MaxFailures failing calls has any configuration and one inbound event.
Runs ==
    { [config |-> c, older |-> o, events |-> MaxEvents, failures |-> 1, raises |-> 0] :
        c \in {x \in Configs : x.max_retries = 1}, o \in {0, DedupCap} }
    \cup
    { [config |-> c, older |-> 0, events |-> 1, failures |-> MaxFailures, raises |-> 0] :
        c \in Configs }

\* the state after __init__ for the run `run`
InitRun(run) ==
    /\ config = run.config
    /\ older_ids = run.older
    /\ limits = [events |-> run.events, failures |-> run.failures,
                 raises |-> run.raises]
    /\ processed_message_ids = {}
    /\ forwarding_queue = <<>>
    /\ is_running = FALSE
    /\ subscriptions = <<>>
    /\ handler_calls = <<>>
    /\ worker_pc = "not_started"
    /\ worker_item = NoItem
    /\ target_idx = 0
    /\ retries = 0
    /\ item_log = <<>>
    /\ enqueue_log = <<>>
    /\ dequeue_count = 0
    /\ failures = 0
    /\ client = 0
    /\ run_pc = "init"
    /\ run_log = <<>>
    /\ compiled_patterns = update_patterns(run.config)
    /\ compiled_replacements = update_replacements(run.config)
    /\ admin_log = <<>>
    /\ config_file = run.config
    /\ task_done_count = 0

Init == \E run \in Runs : InitRun(run)

----------------------------------------------------------------------------
(* start(): the path on which the session is authorized *)

\* _setup_message_handlers: one NewMessage(chats=[g]) per source group, then
\* one NewMessage(chats=source_groups); each entry is the chat list it filters on
setup_message_handlers(c) ==
    [i \in 1..Len(c.source_groups) |-> {c.source_groups[i]}]
    \o << {c.source_groups[i] : i \in 1..Len(c.source_groups)} >>

\* variant: the handlers are registered and the worker is started before
\* the configuration is validated
start_setup_first(c, authorized) ==
    IF ~authorized
    THEN [ok |-> FALSE, subscriptions |-> <<>>, is_running |-> FALSE,
          worker_pc |-> "not_started"]
    ELSE [ok |-> validate_config(c) = {}, subscriptions |-> setup_message_handlers(c),
          is_running |-> TRUE, worker_pc |-> "get"]

\* start(), lines 41-56, on the client object it has just connected: whether
\* it goes on to return True, and the subscriptions, the running flag and
\* the worker task it leaves
start_setup(c, authorized) ==
    IF authorized /\ validate_config(c) = {}
    THEN [ok |-> TRUE, subscriptions |-> setup_message_handlers(c),
          is_running |-> TRUE, worker_pc |-> "get"]
    ELSE [ok |-> FALSE, subscriptions |-> <<>>, is_running |-> FALSE,
          worker_pc |-> "not_started"]

Start ==
    /\ run_pc = "init"
    /\ worker_pc = "not_started"
    /\ ~is_running
    /\ start_setup(config, TRUE).ok
    /\ client' = client + 1
    /\ subscriptions' = start_setup(config, TRUE).subscriptions
    /\ is_running' = start_setup(config, TRUE).is_running
    /\ worker_pc' = start_setup(config, TRUE).worker_pc
    /\ run_pc' = "started"
    /\ UNCHANGED <<run_log, config, processed_message_ids, older_ids, forwarding_queue,
                   handler_calls, worker_item, target_idx, retries, item_log,
                   enqueue_log, dequeue_count, failures, limits,
                   compiled_patterns, compiled_replacements, admin_log, config_file, task_done_count>>

----------------------------------------------------------------------------
(* Ingestion: the transport calls _message_handler once per matching          *)
(* subscription; each call runs handle_new_message and suspends at            *)
(* `await self.client.get_entity(...)`.                                       *)

Delivered == {handler_calls[i].message : i \in 1..Len(handler_calls)}

EventCount == Cardinality(Delivered)

MatchingSubscriptions(m) ==
    SelectSeq(subscriptions, LAMBDA chats : m.chat_id \in chats)

\* per chat the transport delivers messages in id order, each once
Deliverable(m) ==
    /\ m \notin Delivered
    /\ \A d \in Delivered : d.chat_id = m.chat_id => d.id < m.id
    /\ EventCount < limits.events

NewCall(m) == [message |-> m, pc |-> "get_entity", outcome |-> "pending"]

Deliver(m) ==
    /\ Deliverable(m)
    /\ MatchingSubscriptions(m) # <<>>
    /\ handler_calls' = handler_calls \o
            [k \in 1..Len(MatchingSubscriptions(m)) |-> NewCall(m)]
    /\ UNCHANGED <<client, run_pc, run_log, config, processed_message_ids, older_ids, forwarding_queue,
                   is_running, subscriptions, worker_pc, worker_item, target_idx,
                   retries, item_log, enqueue_log, dequeue_count, failures, limits,
                   compiled_patterns, compiled_replacements, admin_log, config_file, task_done_count>>

\* handle_new_message called with an event of a chat that no subscription
\* filters on
CallUnlisted(m) ==
    /\ Deliverable(m)
    /\ subscriptions # <<>>
    /\ MatchingSubscriptions(m) = <<>>
    /\ handler_calls' = Append(handler_calls, NewCall(m))
    /\ UNCHANGED <<client, run_pc, run_log, config, processed_message_ids, older_ids, forwarding_queue,
                   is_running, subscriptions, worker_pc, worker_item, target_idx,
                   retries, item_log, enqueue_log, dequeue_count, failures, limits,
                   compiled_patterns, compiled_replacements, admin_log, config_file, task_done_count>>

DedupSize == Cardinality(processed_message_ids) + older_ids

\* variant: no id is ever reported as seen
seen_never(ids, message_id) == FALSE

\* message.id in self.processed_message_ids
seen(ids, message_id) == message_id \in ids

\* variant: the clean-up starts one id later
needs_cleanup_late(size) == size > DedupCap + 1

\* len(self.processed_message_ids) > 1000
needs_cleanup(size) == size > DedupCap

\* list(self.processed_message_ids)[:500]: the ids a clean-up may discard,
\* as the set S of modelled ids among them; the other EvictCount - |S| are
\* earlier ids.  Set iteration order is not fixed by the code.
Evictions ==
    {S \in SUBSET processed_message_ids :
        /\ Cardinality(S) <= EvictCount
        /\ EvictCount - Cardinality(S) <= older_ids}

\* asyncio.Queue(): maxsize = 0
QueueMaxSize == 0

\* variant: a queue of one slot
queue_full_one(q) == Len(q) >= 1

\* asyncio.Queue.full(), on which put() waits
queue_full(q) == QueueMaxSize > 0 /\ Len(q) >= QueueMaxSize

\* message.text or message.caption is empty and the message has media:
\* lines 111-118 enqueue without calling process_message
media_without_text(message) ==
    (IF message.text # <<>> THEN message.text ELSE message.caption) = <<>>
    /\ message.media

\* variant: the except branch hands back the unprocessed text
try_process_message_keep(c, message, source_group_id, raised) ==
    IF raised THEN message.text ELSE process_message(c, message, source_group_id)

\* process_message with its try/except: when extracting the text or applying
\* the replacements raises, the except branch returns None
try_process_message(c, message, source_group_id, raised) ==
    IF raised THEN NoneText ELSE process_message(c, message, source_group_id)

\* what lines 107-127 put on the queue for a recorded message: <<>> or one item
classify(c, message, source_group_id, raised) ==
    LET processed_text == try_process_message(c, message, source_group_id, raised)
    IN  IF media_without_text(message)
        THEN << [message |-> message, processed_text |-> NoneText,
                 is_media_only |-> TRUE] >>
        ELSE IF processed_text # NoneText
             THEN << [message |-> message, processed_text |-> processed_text,
                      is_media_only |-> FALSE] >>
             ELSE <<>>

Finish(i, outcome) ==
    handler_calls' = [handler_calls EXCEPT ![i].pc = "done", ![i].outcome = outcome]

\* how many process_message calls have raised
RaiseCount ==
    Cardinality({i \in 1..Len(handler_calls) :
                    handler_calls[i].outcome = "process_error"})

\* get_entity returns or raises (the bare except); the rest of
\* handle_new_message has no suspension point: the queue is unbounded and
\* process_message never awaits.  `raised` says whether process_message
\* runs into an exception.
ResumeHandler(i) ==
    /\ handler_calls[i].pc = "get_entity"
    /\ LET message == handler_calls[i].message
           source_group_id == message.chat_id
       IN  IF ~InSeq(source_group_id, config.source_groups)
           THEN /\ Finish(i, "not_configured")
                /\ UNCHANGED <<processed_message_ids, older_ids, forwarding_queue,
                               enqueue_log>>
           ELSE IF seen(processed_message_ids, message.id)
           THEN /\ Finish(i, "duplicate")
                /\ UNCHANGED <<processed_message_ids, older_ids, forwarding_queue,
                               enqueue_log>>
           ELSE /\ IF needs_cleanup(DedupSize)
                   THEN \E S \in Evictions :
                          /\ processed_message_ids' =
                                (processed_message_ids \ S) \cup {message.id}
                          /\ older_ids' = older_ids - (EvictCount - Cardinality(S))
                   ELSE /\ processed_message_ids' =
                                processed_message_ids \cup {message.id}
                        /\ older_ids' = older_ids
                /\ \E raised \in BOOLEAN :
                      /\ raised => /\ ~media_without_text(message)
                                    /\ RaiseCount < limits.raises
                      /\ LET items == classify(config, message, source_group_id,
                                               raised)
                         IN  /\ items # <<>> => ~queue_full(forwarding_queue)
                             /\ forwarding_queue' = forwarding_queue \o items
                             /\ enqueue_log' = enqueue_log \o items
                             /\ Finish(i, IF raised THEN "process_error"
                                          ELSE IF items = <<>> THEN "dropped"
                                          ELSE "enqueued")
    /\ UNCHANGED <<client, run_pc, run_log, config, is_running, subscriptions, worker_pc, worker_item,
                   target_idx, retries, item_log, dequeue_count, failures, limits,
                   compiled_patterns, compiled_replacements, admin_log, config_file, task_done_count>>

----------------------------------------------------------------------------
(* The forwarding worker: _forwarding_worker and _forward_message *)

NoReplyTo == 0

CallEntry(op, target, text, reply_to, result) ==
    [op |-> op, target |-> target, text |-> text, reply_to |-> reply_to,
     result |-> result, seconds |-> 0]

\* asyncio.sleep(seconds) at the call site named by `why`
SleepEntry(why, target, seconds) ==
    [op |-> "sleep", target |-> target, text |-> NoneText, reply_to |-> NoReplyTo,
     result |-> why, seconds |-> seconds]

\* variant: whatever carries media is forwarded
transport_call_any_media(c, item, target_group_id, result) ==
    LET bound == target_group_id \in DOMAIN c.target_topics
                 /\ "topic_id" \in DOMAIN c.target_topics[target_group_id]
    IN  IF item.message.media
        THEN CallEntry("forward_messages", target_group_id, NoneText, NoReplyTo, result)
        ELSE CallEntry("send_message", target_group_id, item.processed_text,
                       IF bound THEN c.target_topics[target_group_id].topic_id
                       ELSE NoReplyTo,
                       result)

\* variant: the original text is sent instead of the processed text
transport_call_raw(c, item, target_group_id, result) ==
    IF item.is_media_only /\ item.message.media
    THEN CallEntry("forward_messages", target_group_id, NoneText, NoReplyTo, result)
    ELSE CallEntry("send_message", target_group_id, item.message.text,
                   NoReplyTo, result)

\* the transport call of lines 140-173 for one attempt
transport_call(c, item, target_group_id, result) ==
    LET bound == target_group_id \in DOMAIN c.target_topics
                 /\ "topic_id" \in DOMAIN c.target_topics[target_group_id]
    IN  IF item.is_media_only /\ item.message.media
        THEN CallEntry("forward_messages", target_group_id, NoneText, NoReplyTo, result)
        ELSE CallEntry("send_message", target_group_id, item.processed_text,
                       IF bound THEN c.target_topics[target_group_id].topic_id
                       ELSE NoReplyTo,
                       result)

\* variant: the sleep computed before the counter is incremented
backoff_seconds_early(r) == 2 ^ (r - 1)

\* 2 ** retries
backoff_seconds(r) == 2 ^ r

\* variant: giving up a target leaves _forward_message
loop_head_abort(c, t, r) ==
    IF t > Len(c.target_groups) \/ r >= c.max_retries
    THEN IF c.forward_delay > 0
         THEN [pc |-> "forward_delay", target_idx |-> Len(c.target_groups) + 1,
               retries |-> r,
               sleep |-> << SleepEntry("forward_delay", 0, c.forward_delay) >>]
         ELSE [pc |-> "get", target_idx |-> Len(c.target_groups) + 1,
               retries |-> r, sleep |-> <<>>]
    ELSE [pc |-> "attempt", target_idx |-> t, retries |-> r, sleep |-> <<>>]

\* variant: while retries <= max_retries
RECURSIVE loop_head_le(_, _, _)
loop_head_le(c, t, r) ==
    IF t > Len(c.target_groups)
    THEN IF c.forward_delay > 0
         THEN [pc |-> "forward_delay", target_idx |-> t, retries |-> r,
               sleep |-> << SleepEntry("forward_delay", 0, c.forward_delay) >>]
         ELSE [pc |-> "get", target_idx |-> t, retries |-> r, sleep |-> <<>>]
    ELSE IF r <= c.max_retries
         THEN [pc |-> "attempt", target_idx |-> t, retries |-> r, sleep |-> <<>>]
         ELSE loop_head_le(c, t + 1, 0)

\* variant: if forward_delay >= 0
RECURSIVE loop_head_always_delay(_, _, _)
loop_head_always_delay(c, t, r) ==
    IF t > Len(c.target_groups)
    THEN [pc |-> "forward_delay", target_idx |-> t, retries |-> r,
          sleep |-> << SleepEntry("forward_delay", 0, c.forward_delay) >>]
    ELSE IF r < c.max_retries
         THEN [pc |-> "attempt", target_idx |-> t, retries |-> r, sleep |-> <<>>]
         ELSE loop_head_always_delay(c, t + 1, 0)

\* Control after the body of the while loop has been left with counter r for
\* target number t: the while condition, the for loop, and lines 264-267.
RECURSIVE loop_head(_, _, _)
loop_head(c, t, r) ==
    IF t > Len(c.target_groups)
    THEN IF c.forward_delay > 0
         THEN [pc |-> "forward_delay", target_idx |-> t, retries |-> r,
               sleep |-> << SleepEntry("forward_delay", 0, c.forward_delay) >>]
         ELSE [pc |-> "get", target_idx |-> t, retries |-> r, sleep |-> <<>>]
    ELSE IF r < c.max_retries
         THEN [pc |-> "attempt", target_idx |-> t, retries |-> r, sleep |-> <<>>]
         ELSE loop_head(c, t + 1, 0)

\* the worker moves on to pos; reaching `get` again passes
\* self._forwarding_queue.task_done() at line 267
Goto(pos) ==
    /\ worker_pc' = pos.pc
    /\ target_idx' = pos.target_idx
    /\ retries' = pos.retries
    /\ task_done_count' = task_done_count + (IF pos.pc = "get" THEN 1 ELSE 0)

\* variant: the newest item first
queue_get_lifo(q) == [item |-> q[Len(q)], rest |-> SubSeq(q, 1, Len(q) - 1)]

\* item = await self._forwarding_queue.get()
queue_get(q) == [item |-> Head(q), rest |-> Tail(q)]

WorkerGet ==
    /\ worker_pc = "get"
    /\ is_running
    /\ forwarding_queue # <<>>
    /\ worker_item' = queue_get(forwarding_queue).item
    /\ forwarding_queue' = queue_get(forwarding_queue).rest
    /\ dequeue_count' = dequeue_count + 1
    /\ LET pos == loop_head(config, 1, 0)
       IN  /\ Goto(pos)
           /\ item_log' = pos.sleep
    /\ UNCHANGED <<client, run_pc, run_log, config, processed_message_ids, older_ids, is_running,
                   subscriptions, handler_calls, enqueue_log, failures, limits,
                   compiled_patterns, compiled_replacements, admin_log, config_file>>

\* variant: a rate limit handled like any other error
on_flood_wait_backoff(c, t, r, seconds) ==
    [pc |-> "flood_wait", target_idx |-> t, retries |-> r,
     sleep |-> << SleepEntry("flood_wait", c.target_groups[t], 2 ^ (r + 1)) >>]

\* what the except branches do after a failed attempt with counter r
on_flood_wait(c, t, r, seconds) ==
    [pc |-> "flood_wait", target_idx |-> t, retries |-> r,
     sleep |-> << SleepEntry("flood_wait", c.target_groups[t], seconds) >>]

on_error(c, t, r) ==
    IF r + 1 < c.max_retries
    THEN [pc |-> "backoff", target_idx |-> t, retries |-> r + 1,
          sleep |-> << SleepEntry("backoff", c.target_groups[t],
                                  backoff_seconds(r + 1)) >>]
    ELSE loop_head(c, t, r + 1)

\* variant: a rate-limited target is given up after the sleep
after_flood_wait_skip(c, t, r) == loop_head(c, t + 1, 0)

\* retries += 1 after the flood-wait sleep (line 181), then the while test
after_flood_wait(c, t, r) == loop_head(c, t, r + 1)

\* one pass through the try block: the send or forward returns or raises
WorkerAttempt(result, seconds) ==
    /\ worker_pc = "attempt"
    /\ result # "ok" => failures < limits.failures
    /\ failures' = IF result = "ok" THEN failures ELSE failures + 1
    /\ LET target_group_id == config.target_groups[target_idx]
           entry == transport_call(config, worker_item, target_group_id, result)
           pos == CASE result = "ok" -> loop_head(config, target_idx + 1, 0)
                    [] result = "flood" ->
                          on_flood_wait(config, target_idx, retries, seconds)
                    [] OTHER -> on_error(config, target_idx, retries)
       IN  /\ Goto(pos)
           /\ item_log' = Append(item_log,
                                 [entry EXCEPT !.seconds =
                                     IF result = "flood" THEN seconds ELSE 0])
                          \o pos.sleep
    /\ UNCHANGED <<client, run_pc, run_log, config, processed_message_ids, older_ids, forwarding_queue,
                   is_running, subscriptions, handler_calls, worker_item,
                   enqueue_log, dequeue_count, limits,
                   compiled_patterns, compiled_replacements, admin_log, config_file>>

\* an asyncio.sleep of the worker returns
WorkerWake ==
    /\ worker_pc \in {"flood_wait", "backoff", "forward_delay"}
    /\ LET pos == CASE worker_pc = "flood_wait" ->
                          after_flood_wait(config, target_idx, retries)
                    [] worker_pc = "backoff" ->
                          loop_head(config, target_idx, retries)
                    [] OTHER ->
                          [pc |-> "get", target_idx |-> target_idx,
                           retries |-> retries, sleep |-> <<>>]
       IN  /\ Goto(pos)
           /\ item_log' = item_log \o pos.sleep
    /\ UNCHANGED <<client, run_pc, run_log, config, processed_message_ids, older_ids, forwarding_queue,
                   is_running, subscriptions, handler_calls, worker_item,
                   enqueue_log, dequeue_count, failures, limits,
                   compiled_patterns, compiled_replacements, admin_log, config_file>>

----------------------------------------------------------------------------

Next ==
    \/ Start
    \/ \E m \in Messages : Deliver(m)
    \/ \E m \in Messages : CallUnlisted(m)
    \/ \E i \in 1..Len(handler_calls) : ResumeHandler(i)
    \/ WorkerGet
    \/ \E s \in FloodSeconds : WorkerAttempt("flood", s)
    \/ \E r \in {"ok", "error"} : WorkerAttempt(r, 0)
    \/ WorkerWake

Spec == Init /\ [][Next]_vars

----------------------------------------------------------------------------
(* Runs that look at the ingestion path: process_message may raise once,   *)
(* a failed attempt is followed by a backoff sleep, and the rule of the    *)
(* second source group deletes its pattern (its new text is empty).        *)

IngestConfigs ==
    { [c EXCEPT !.group_specific_replacements =
                    [g \in {Src2} |-> << <<  <<"c">>, <<>>  >> >>]] :
        c \in {x \in Configs : x.max_retries = 2 /\ x.forward_delay = 1} }

RunsIngest ==
    { [config |-> c, older |-> 0, events |-> MaxEvents, failures |-> 1, raises |-> 1] :
        c \in IngestConfigs }

InitIngest == \E run \in RunsIngest : InitRun(run)

SpecIngest == InitIngest /\ [][Next]_vars

----------------------------------------------------------------------------
(* The task of the entry point: start(), then run_until_disconnected().    *)
(* The transport delivers events to whatever handlers the current client   *)
(* object has, whether or not the task has entered the loop.               *)

RunEntry(ev, seconds) == [ev |-> ev, seconds |-> seconds]

StartFailures == {"start_not_authorized", "start_config_errors", "start_exception"}

\* start() returns False: the session is not authorized, validate_config
\* reports errors, or connecting raises
StartFails(why) ==
    /\ run_pc = "init"
    /\ client' = client + 1
    /\ run_pc' = "start_failed"
    /\ run_log' = Append(run_log, RunEntry(why, 0))
    /\ IF why = "start_exception"
       THEN UNCHANGED <<subscriptions, is_running, worker_pc>>
       ELSE LET r == start_setup(config, why # "start_not_authorized")
            IN  /\ ~r.ok
                /\ subscriptions' = r.subscriptions
                /\ is_running' = r.is_running
                /\ worker_pc' = r.worker_pc
    /\ UNCHANGED <<config, processed_message_ids, older_ids, forwarding_queue,
                   handler_calls,
                   worker_item, target_idx, retries, item_log, enqueue_log,
                   dequeue_count, failures, limits,
                   compiled_patterns, compiled_replacements, admin_log, config_file, task_done_count>>

\* the entry point calls run_until_disconnected(); main.py, telegram_main.py
\* and render_telegram_main.py do so whatever start() returned
EnterRunLoop ==
    /\ run_pc \in {"started", "start_failed"}
    /\ run_pc' = "listening"
    /\ UNCHANGED <<config, processed_message_ids, older_ids, forwarding_queue,
                   is_running, subscriptions, handler_calls, worker_pc,
                   worker_item, target_idx, retries, item_log, enqueue_log,
                   dequeue_count, failures, limits,
                   compiled_patterns, compiled_replacements, admin_log, config_file, task_done_count, client, run_log>>

Losses == Len(SelectSeq(run_log, LAMBDA e : e.ev = "connection_lost"))

\* await self.client.run_until_disconnected() raises: lines 286-289
ConnectionLost ==
    /\ run_pc = "listening"
    /\ Losses < MaxReconnects
    /\ run_pc' = "sleep30"
    /\ run_log' = run_log \o << RunEntry("connection_lost", 0),
                                RunEntry("sleep", ReconnectDelay) >>
    /\ UNCHANGED <<config, processed_message_ids, older_ids, forwarding_queue,
                   is_running, subscriptions, handler_calls, worker_pc,
                   worker_item, target_idx, retries, item_log, enqueue_log,
                   dequeue_count, failures, limits,
                   compiled_patterns, compiled_replacements, admin_log, config_file, task_done_count, client>>

\* variant: leaving the loop clears the running flag
run_loop_exit_clears(running) == FALSE

\* the break at line 285 or 304: self._is_running is not assigned
run_loop_exit(running) == running

\* await self.client.run_until_disconnected() returns: lines 284-285
RunReturns ==
    /\ run_pc = "listening"
    /\ run_pc' = "stopped"
    /\ is_running' = run_loop_exit(is_running)
    /\ run_log' = Append(run_log, RunEntry("returned", 0))
    /\ UNCHANGED <<config, processed_message_ids, older_ids, forwarding_queue,
                   subscriptions, handler_calls, worker_pc,
                   worker_item, target_idx, retries, item_log, enqueue_log,
                   dequeue_count, failures, limits,
                   compiled_patterns, compiled_replacements, admin_log, config_file, task_done_count, client>>

\* a sleep of the loop returns: after the 30 seconds the reconnect is tried,
\* after the 60 seconds the while loop starts over
RunWake ==
    /\ run_pc \in {"sleep30", "sleep60"}
    /\ run_pc' = IF run_pc = "sleep30" THEN "reconnect" ELSE "listening"
    /\ UNCHANGED <<config, processed_message_ids, older_ids, forwarding_queue,
                   is_running, subscriptions, handler_calls, worker_pc,
                   worker_item, target_idx, retries, item_log, enqueue_log,
                   dequeue_count, failures, limits,
                   compiled_patterns, compiled_replacements, admin_log, config_file, task_done_count, client, run_log>>

\* variant: the handlers are registered whatever is_user_authorized() says
after_reconnect_always(c, authorized) ==
    [pc |-> "listening", subscriptions |-> setup_message_handlers(c)]

\* lines 299-304, on the new client object
after_reconnect(c, authorized) ==
    IF authorized
    THEN [pc |-> "listening", subscriptions |-> setup_message_handlers(c)]
    ELSE [pc |-> "stopped", subscriptions |-> <<>>]

\* variant: a failed reconnect ends the loop
after_reconnect_error_stop == [pc |-> "stopped", sleep |-> <<>>]

\* lines 306-308
after_reconnect_error ==
    [pc |-> "sleep60", sleep |-> << RunEntry("sleep", RetryDelay) >>]

ReconnectOutcomes ==
    {"authorized", "not_authorized", "disconnect_raises", "connect_raises"}

\* lines 291-308: disconnect the old client, make a new one, connect it and
\* ask whether the session is authorized; disconnect() and connect() may raise
Reconnect(outcome) ==
    /\ run_pc = "reconnect"
    /\ outcome = "disconnect_raises" => client > 0
    /\ IF outcome \in {"authorized", "not_authorized"}
       THEN LET pos == after_reconnect(config, outcome = "authorized")
            IN  /\ client' = client + 1
                /\ subscriptions' = pos.subscriptions
                /\ run_pc' = pos.pc
                /\ run_log' = Append(run_log, RunEntry(outcome, 0))
       ELSE /\ client' = IF outcome = "disconnect_raises" THEN client
                         ELSE client + 1
            /\ subscriptions' = IF outcome = "disconnect_raises" THEN subscriptions
                                ELSE <<>>
            /\ run_pc' = after_reconnect_error.pc
            /\ run_log' = Append(run_log, RunEntry(outcome, 0))
                           \o after_reconnect_error.sleep
    /\ is_running' = IF run_pc' = "stopped" THEN run_loop_exit(is_running)
                     ELSE is_running
    /\ UNCHANGED <<config, processed_message_ids, older_ids, forwarding_queue,
                   handler_calls, worker_pc, worker_item, target_idx,
                   retries, item_log, enqueue_log, dequeue_count, failures, limits,
                   compiled_patterns, compiled_replacements, admin_log, config_file, task_done_count>>

\* the default filter settings (enabled, no keywords) make validate_config
\* report an error, and so does a retry budget of 0
LifeConfigs ==
    LET ok == CHOOSE c \in Configs : c.max_retries = 1 /\ c.forward_delay = 0
    IN  {ok, [ok EXCEPT !.filters.keywords = <<>>], [ok EXCEPT !.max_retries = 0]}

RunsLife ==
    { [config |-> c, older |-> 0, events |-> 1, failures |-> 1, raises |-> 0] :
        c \in LifeConfigs }

InitLife == \E run \in RunsLife : InitRun(run)

NextLife ==
    \/ Next
    \/ \E why \in StartFailures : StartFails(why)
    \/ EnterRunLoop
    \/ ConnectionLost
    \/ RunReturns
    \/ RunWake
    \/ \E outcome \in ReconnectOutcomes : Reconnect(outcome)

SpecLife == InitLife /\ [][NextLife]_vars

----------------------------------------------------------------------------
(* Fair scheduling of the worker task: the event loop resumes it when the  *)
(* queue has an item, when a sleep is over and when a transport call       *)
(* returns or raises.                                                      *)

AnyAttempt ==
    \/ \E s \in FloodSeconds : WorkerAttempt("flood", s)
    \/ \E r \in {"ok", "error"} : WorkerAttempt(r, 0)

\* one source group, so that an event reaches the handler twice and the
\* events of the other chats once
FairConfigs ==
    { [c EXCEPT !.source_groups = <<Src1>>] :
        c \in {x \in Configs : x.max_retries = 2 /\ x.forward_delay = 1} }

RunsFair ==
    { [config |-> c, older |-> 0, events |-> MaxEvents, failures |-> 2, raises |-> 0] :
        c \in FairConfigs }

InitFair == \E run \in RunsFair : InitRun(run)

SpecFair ==
    /\ InitFair
    /\ [][Next]_vars
    /\ WF_vars(WorkerGet)
    /\ WF_vars(AnyAttempt)
    /\ WF_vars(WorkerWake)

\* the event loop goes on running the worker task whatever the run loop does
SpecLifeFair ==
    /\ InitLife
    /\ [][NextLife]_vars
    /\ WF_vars(WorkerGet)
    /\ WF_vars(AnyAttempt)
    /\ WF_vars(WorkerWake)

----------------------------------------------------------------------------
(* Reading the history *)

IsCall(e) == e.op # "sleep"

Calls(log) == SelectSeq(log, IsCall)

CallsTo(log, t) == SelectSeq(log, LAMBDA e : IsCall(e) /\ e.target = t)

SleepsOf(log, why) == SelectSeq(log, LAMBDA e : e.op = "sleep" /\ e.result = why)

FailedCallsTo(log, t) == SelectSeq(CallsTo(log, t), LAMBDA e : e.result # "ok")

TargetIndex(c, t) == CHOOSE i \in 1..Len(c.target_groups) : c.target_groups[i] = t

\* the worker holds an item and is inside _forward_message
Forwarding == worker_pc \in {"attempt", "flood_wait", "backoff"}

\* the worker has left _forward_message for the item it took last
ItemDone == dequeue_count > 0 /\ worker_pc \in {"get", "forward_delay"}

CallAdded == Len(Calls(item_log')) = Len(Calls(item_log)) + 1 /\ dequeue_count' = dequeue_count

Dequeued == dequeue_count' # dequeue_count

----------------------------------------------------------------------------
(* C1: the worker takes the work items in the order they were enqueued,   *)
(* each exactly once and one at a time: the queue always holds exactly the *)
(* enqueued items not yet taken, an item is taken only when the worker has *)
(* left _forward_message for the previous one, and every send or forward   *)
(* attempt is made for the item taken last.                                *)
C1_FifoOneAtATime ==
    [][ /\ dequeue_count' <= Len(enqueue_log')
        /\ forwarding_queue' =
              SubSeq(enqueue_log', dequeue_count' + 1, Len(enqueue_log'))
        /\ Dequeued =>
              /\ worker_pc = "get"
              /\ dequeue_count' = dequeue_count + 1
              /\ worker_item' = enqueue_log[dequeue_count']
        /\ CallAdded =>
              /\ worker_item = enqueue_log[dequeue_count]
              /\ worker_item' = worker_item ]_vars

\* the second of two different queued items is being sent after the first
C1_Witness ==
    /\ dequeue_count = 2
    /\ worker_pc = "attempt"
    /\ enqueue_log[1] # enqueue_log[2]
    /\ worker_item = enqueue_log[2]

----------------------------------------------------------------------------
(* C2: for every item taken, the targets attempted are the configured     *)
(* targets in configured order: while forwarding, the targets attempted so *)
(* far are the targets before the current one (and the current one once it *)
(* has been tried), the worker never rests on a target whose retries are   *)
(* used up, and when it leaves _forward_message every target has been      *)
(* attempted; it is then ready to take the next item.                      *)

RECURSIVE Collapse(_)
Collapse(s) ==
    IF Len(s) <= 1 THEN s
    ELSE IF s[1] = s[2] THEN Collapse(Tail(s))
         ELSE <<s[1]>> \o Collapse(Tail(s))

TargetsAttempted(log) == Collapse([i \in 1..Len(Calls(log)) |-> Calls(log)[i].target])

C2_EveryTargetAttempted ==
    /\ Forwarding =>
          /\ target_idx \in 1..Len(config.target_groups)
          /\ retries < config.max_retries
          /\ TargetsAttempted(item_log) \in
                { SubSeq(config.target_groups, 1, target_idx - 1),
                  SubSeq(config.target_groups, 1, target_idx) }
    /\ ItemDone =>
          /\ TargetsAttempted(item_log) = config.target_groups
          /\ (worker_pc = "get" /\ forwarding_queue # <<>>) => ENABLED WorkerGet

\* the first target was given up after its last allowed attempt, the second
\* was still sent to, and the worker can take the item that waits in the queue
C2_Witness ==
    /\ ItemDone
    /\ worker_pc = "get"
    /\ forwarding_queue # <<>>
    /\ Len(FailedCallsTo(item_log, Tgt1)) = config.max_retries
    /\ \E i \in 1..Len(item_log) :
          item_log[i].target = Tgt2 /\ item_log[i].result = "ok"
    /\ ENABLED WorkerGet

----------------------------------------------------------------------------
(* C3: for the item being forwarded and every target, at most max_retries *)
(* attempts are made, no attempt follows a successful one (so at most one  *)
(* succeeds), and once the worker has moved to a later target it makes no  *)
(* further attempt on an earlier one.                                      *)
C3_RetryBudget ==
    \A i \in 1..Len(config.target_groups) :
        LET t == config.target_groups[i]
            calls == CallsTo(item_log, t)
        IN  /\ Len(calls) <= config.max_retries
            /\ \A k \in 1..Len(calls) : calls[k].result = "ok" => k = Len(calls)
            /\ \A a, b \in 1..Len(Calls(item_log)) :
                  a < b => TargetIndex(config, Calls(item_log)[a].target)
                             <= TargetIndex(config, Calls(item_log)[b].target)

\* a target was given up after max_retries > 1 failed attempts and the worker
\* has gone on to the next target
C3_Witness ==
    /\ config.max_retries > 1
    /\ Len(FailedCallsTo(item_log, Tgt1)) = config.max_retries
    /\ Len(CallsTo(item_log, Tgt2)) > 0

----------------------------------------------------------------------------
(* C4: when an attempt fails with an error other than a rate limit and it  *)
(* is the k-th failed attempt for the item and target, the next thing the  *)
(* worker does is sleep 2^k seconds if k < max_retries, and it does not    *)
(* sleep for backoff if k = max_retries; with max_retries = 3, attempts    *)
(* that end error, error, ok give backoff sleeps of 2 and 4 seconds and    *)
(* one successful send.                                                    *)

\* how many of the first i log entries are failed calls to target t
FailedBefore(log, i, t) == Len(FailedCallsTo(SubSeq(log, 1, i), t))

ResultsTo(log, t) == [k \in 1..Len(CallsTo(log, t)) |-> CallsTo(log, t)[k].result]

BackoffSecondsFor(log, t) ==
    LET sl == SelectSeq(log, LAMBDA e : e.op = "sleep" /\ e.result = "backoff"
                                          /\ e.target = t)
    IN  [k \in 1..Len(sl) |-> sl[k].seconds]

C4_ExponentialBackoff ==
    /\ \A i \in 1..Len(item_log) :
          (IsCall(item_log[i]) /\ item_log[i].result = "error") =>
              LET k == FailedBefore(item_log, i, item_log[i].target)
              IN  IF k < config.max_retries
                  THEN /\ i < Len(item_log)
                       /\ item_log[i + 1] =
                             SleepEntry("backoff", item_log[i].target, 2 ^ k)
                  ELSE i < Len(item_log) => item_log[i + 1].result # "backoff"
    /\ \A i \in 1..Len(item_log) :
          (item_log[i].op = "sleep" /\ item_log[i].result = "backoff") =>
              /\ i > 1
              /\ IsCall(item_log[i - 1])
              /\ item_log[i - 1].result = "error"
    /\ \A t \in {Tgt1, Tgt2} :
          (config.max_retries = 3 /\ ResultsTo(item_log, t) = <<"error", "error", "ok">>)
              => BackoffSecondsFor(item_log, t) = <<2, 4>>

\* error, error, ok on one target with max_retries = 3
C4_Witness ==
    /\ config.max_retries = 3
    /\ ResultsTo(item_log, Tgt1) = <<"error", "error", "ok">>
    /\ BackoffSecondsFor(item_log, Tgt1) = <<2, 4>>

----------------------------------------------------------------------------
(* C5: when an attempt is answered by a rate limit of s seconds, the next  *)
(* thing the worker does is sleep exactly s seconds, no backoff sleep      *)
(* follows it, and the retry counter counts that attempt once: while the   *)
(* worker is about to attempt a target, retries is the number of failed    *)
(* attempts on it, so max_retries rate limits in a row give the target up. *)
C5_FloodWait ==
    /\ \A i \in 1..Len(item_log) :
          (IsCall(item_log[i]) /\ item_log[i].result = "flood") =>
              /\ i < Len(item_log)
              /\ item_log[i + 1] =
                    SleepEntry("flood_wait", item_log[i].target, item_log[i].seconds)
              /\ i + 1 < Len(item_log) => item_log[i + 2].result # "backoff"
    /\ \A i \in 1..Len(item_log) :
          (item_log[i].op = "sleep" /\ item_log[i].result = "flood_wait") =>
              /\ i > 1
              /\ IsCall(item_log[i - 1])
              /\ item_log[i - 1].result = "flood"
    /\ Forwarding =>
          LET failed == Len(FailedCallsTo(item_log, config.target_groups[target_idx]))
          IN  retries = IF worker_pc = "flood_wait" THEN failed - 1 ELSE failed
    /\ \A i \in 1..Len(config.target_groups) :
          LET t == config.target_groups[i]
          IN  ( /\ Len(CallsTo(item_log, t)) = config.max_retries
                /\ \A k \in 1..config.max_retries : ResultsTo(item_log, t)[k] = "flood"
                /\ worker_pc # "flood_wait" )
              => (ItemDone \/ target_idx > i)

\* max_retries > 1 rate limits in a row on the first target, which was then
\* given up for the second
C5_Witness ==
    /\ config.max_retries > 1
    /\ ResultsTo(item_log, Tgt1) = [k \in 1..config.max_retries |-> "flood"]
    /\ worker_pc = "attempt"
    /\ target_idx = 2
    /\ retries = 0

----------------------------------------------------------------------------
(* C6: when the worker has left _forward_message for an item, it sleeps    *)
(* forward_delay seconds, as the last thing it does for the item and       *)
(* before it can take the next one, if forward_delay > 0; if               *)
(* forward_delay = 0 it makes no such sleep.  No such sleep is made while  *)
(* targets remain.                                                         *)
C6_ForwardDelay ==
    LET delays == SleepsOf(item_log, "forward_delay")
    IN  /\ Forwarding => delays = <<>>
        /\ worker_pc = "forward_delay" => config.forward_delay > 0
        /\ ItemDone =>
              IF config.forward_delay > 0
              THEN /\ Len(delays) = 1
                   /\ item_log[Len(item_log)] =
                         SleepEntry("forward_delay", 0, config.forward_delay)
              ELSE delays = <<>>

\* the delay has been slept after an item whose last target was given up
C6_Witness ==
    /\ ItemDone
    /\ worker_pc = "get"
    /\ config.forward_delay > 0
    /\ Len(item_log) > 1
    /\ item_log[Len(item_log)].result = "forward_delay"
    /\ item_log[Len(item_log) - 1].result \in {"error", "flood_wait"}

\* no delay after an item when forward_delay = 0
C6_WitnessNoDelay ==
    /\ ItemDone
    /\ config.forward_delay = 0
    /\ SleepsOf(item_log, "forward_delay") = <<>>

----------------------------------------------------------------------------
(* C7: end to end, without failing transport calls: a handler call that    *)
(* accepts a message with text leaves a work item carrying the text that   *)
(* process_message returns for it, and the calls the worker makes for a    *)
(* work item that is not media-only are send_message calls with that text, *)
(* one per configured target in configured order, all of them made when    *)
(* the worker leaves _forward_message.                                     *)

ExpectedSends(c, message) ==
    [i \in 1..Len(c.target_groups) |->
        [op |-> "send_message", target |-> c.target_groups[i],
         text |-> process_message(c, message, message.chat_id)]]

SendsMade(log) ==
    [i \in 1..Len(Calls(log)) |->
        [op |-> Calls(log)[i].op, target |-> Calls(log)[i].target,
         text |-> Calls(log)[i].text]]

IsPrefix(s, t) == Len(s) <= Len(t) /\ s = SubSeq(t, 1, Len(s))

TextBearing(message) == extract_message_text(message) # <<>>

----------------------------------------------------------------------------
(* C8: a handler call for an event of a configured source group whose      *)
(* message id is in the dedup set neither enqueues anything nor changes    *)
(* the dedup set, whichever chat the id was recorded from; a call whose id *)
(* is not in the set leaves the id in the set, where it stays through      *)
(* every later step that makes no clean-up.                                *)

Resumed(i) == handler_calls[i].pc = "get_entity" /\ handler_calls'[i].pc = "done"

C8_Dedup ==
    [][ /\ \A i \in 1..Len(handler_calls) :
              (Resumed(i) /\ InSeq(handler_calls[i].message.chat_id, config.source_groups)) =>
                  IF handler_calls[i].message.id \in processed_message_ids
                  THEN /\ forwarding_queue' = forwarding_queue
                       /\ enqueue_log' = enqueue_log
                       /\ processed_message_ids' = processed_message_ids
                       /\ older_ids' = older_ids
                  ELSE handler_calls[i].message.id \in processed_message_ids'
        /\ \A id \in processed_message_ids :
              DedupSize <= DedupCap => id \in processed_message_ids' ]_vars

\* the message with id 1 of the second source chat was discarded as a
\* duplicate of the message with id 1 of the first source chat
C8_Witness ==
    /\ \E i \in 1..Len(handler_calls) :
          /\ handler_calls[i].message.chat_id = Src2
          /\ handler_calls[i].message.id = 1
          /\ handler_calls[i].outcome = "duplicate"
    /\ \E k \in 1..Len(enqueue_log) :
          enqueue_log[k].message.chat_id = Src1 /\ enqueue_log[k].message.id = 1
    /\ \A k \in 1..Len(enqueue_log) : enqueue_log[k].message.chat_id # Src2

----------------------------------------------------------------------------
(* C9: at most one work item is ever enqueued per inbound message, also    *)
(* when each event reaches the handler through its per-group subscription  *)
(* and through the aggregate subscription.                                 *)

ItemsOf(m) == SelectSeq(enqueue_log, LAMBDA item : item.message = m)

C9_AtMostOneItemPerMessage ==
    \A m \in Messages : Len(ItemsOf(m)) <= 1

----------------------------------------------------------------------------
(* C10: if the first handler call for event A was made before the first    *)
(* handler call for event B and both have a work item, A's work item was   *)
(* enqueued before B's.                                                    *)

FirstCall(m) == CHOOSE i \in 1..Len(handler_calls) :
                    /\ handler_calls[i].message = m
                    /\ \A j \in 1..(i - 1) : handler_calls[j].message # m

FirstItem(m) == CHOOSE k \in 1..Len(enqueue_log) :
                    /\ enqueue_log[k].message = m
                    /\ \A j \in 1..(k - 1) : enqueue_log[j].message # m

C10_EnqueueInDeliveryOrder ==
    \A a, b \in Delivered :
        (FirstCall(a) < FirstCall(b) /\ ItemsOf(a) # <<>> /\ ItemsOf(b) # <<>>)
            => FirstItem(a) < FirstItem(b)

----------------------------------------------------------------------------
(* C11: a handler call for an event whose chat id is not among the         *)
(* configured source groups is discarded: it puts no work item on the      *)
(* queue and leaves the dedup set as it was.                               *)

SourceIds == {config.source_groups[k] : k \in 1..Len(config.source_groups)}

C11_NonSourceDiscarded ==
    [][ \A i \in 1..Len(handler_calls) :
            (Resumed(i) /\ handler_calls[i].message.chat_id \notin SourceIds) =>
                /\ handler_calls'[i].outcome = "not_configured"
                /\ forwarding_queue' = forwarding_queue
                /\ enqueue_log' = enqueue_log
                /\ processed_message_ids' = processed_message_ids
                /\ older_ids' = older_ids ]_vars

\* an event of the unlisted chat was discarded after a message of a source
\* group had been recorded and enqueued
C11_Witness ==
    /\ \E i \in 1..Len(handler_calls) :
          /\ handler_calls[i].message.chat_id = Unlisted
          /\ handler_calls[i].outcome = "not_configured"
          /\ \E j \in 1..(i - 1) : handler_calls[j].outcome = "enqueued"
    /\ \A k \in 1..Len(enqueue_log) : enqueue_log[k].message.chat_id # Unlisted
    /\ 4 \notin processed_message_ids
    /\ processed_message_ids # {}

----------------------------------------------------------------------------
(* C13: every transport call the worker makes for a media-only item is a   *)
(* forward of the original message, and every call it makes for any other  *)
(* item is a send whose text is exactly the item's processed text, also    *)
(* when the message of that item carries media.                            *)
C13_ForwardIffMediaOnly ==
    \A k \in 1..Len(Calls(item_log)) :
        LET e == Calls(item_log)[k]
        IN  IF worker_item.is_media_only
            THEN e.op = "forward_messages"
            ELSE e.op = "send_message" /\ e.text = worker_item.processed_text

\* the item of a message with text and media has been sent, not forwarded,
\* to both targets
C13_Witness ==
    /\ ItemDone
    /\ ~worker_item.is_media_only
    /\ worker_item.message.media
    /\ worker_item.message.text = TxtPlain
    /\ Len(Calls(item_log)) = Len(config.target_groups)
    /\ \A k \in 1..Len(Calls(item_log)) :
          /\ Calls(item_log)[k].op = "send_message"
          /\ Calls(item_log)[k].result = "ok"
          /\ Calls(item_log)[k].text = <<"X", "X">>

----------------------------------------------------------------------------
(* C14: every transport call to a target that has a topic binding is       *)
(* directed into that topic, and every call to a target without a binding  *)
(* goes to the main stream of the target, for text items and for           *)
(* media-only items.                                                       *)

TopicOf(c, t) ==
    IF t \in DOMAIN c.target_topics /\ "topic_id" \in DOMAIN c.target_topics[t]
    THEN c.target_topics[t].topic_id
    ELSE NoReplyTo

C14_TopicRouting ==
    \A k \in 1..Len(Calls(item_log)) :
        Calls(item_log)[k].reply_to = TopicOf(config, Calls(item_log)[k].target)

----------------------------------------------------------------------------
(* C20: a handler call that records a new id while the dedup set holds     *)
(* more than 1000 ids first evicts exactly 500 ids and then inserts the    *)
(* new one, which is therefore in the set afterwards; a call that records  *)
(* while the set holds at most 1000 ids evicts nothing; and the set never  *)
(* holds more than 1001 ids.                                               *)

Records(i) ==
    /\ Resumed(i)
    /\ handler_calls[i].message.chat_id \in SourceIds
    /\ handler_calls[i].message.id \notin processed_message_ids

C20_EvictionBound ==
    /\ DedupSize <= 1001
    /\ [][ /\ DedupSize' <= 1001
           /\ \A i \in 1..Len(handler_calls) :
                 Records(i) =>
                    /\ handler_calls[i].message.id \in processed_message_ids'
                    /\ DedupSize' = IF DedupSize > 1000
                                    THEN (DedupSize - 500) + 1
                                    ELSE DedupSize + 1 ]_vars

\* a clean-up has happened: the set had reached 1001 ids and holds the 501
\* that were kept and the id recorded after the clean-up
C20_Witness ==
    /\ DedupSize = 502
    /\ older_ids < DedupCap
    /\ \E i \in 1..Len(handler_calls) :
          /\ handler_calls[i].outcome \in {"enqueued", "dropped"}
          /\ handler_calls[i].message.id \in processed_message_ids

----------------------------------------------------------------------------
(* C12: every work item in the queue that is media-only has no processed   *)
(* text and a message with media and neither text nor caption; every other *)
(* work item in the queue has a processed text that is a non-empty string. *)
C12_WorkItemShape ==
    \A k \in 1..Len(forwarding_queue) :
        LET item == forwarding_queue[k]
        IN  IF item.is_media_only
            THEN /\ item.processed_text = NoneText
                 /\ item.message.media
                 /\ item.message.text = <<>>
                 /\ item.message.caption = <<>>
            ELSE /\ item.processed_text # NoneText
                 /\ item.processed_text # <<>>

----------------------------------------------------------------------------
(* C17: a handler call in which process_message raises enqueues nothing    *)
(* and ends like any other call, leaving the worker, the subscriptions and *)
(* the other calls as they were; a call for a new message that is handled  *)
(* after such a failure and has text, or media and no text, puts exactly   *)
(* its work item at the tail of the queue.                                 *)

Acceptable(message) ==
    \/ TextBearing(message)
    \/ message.text = <<>> /\ message.caption = <<>> /\ message.media

C17_ProcessingErrorDrops ==
    [][ \A i \in 1..Len(handler_calls) :
          Resumed(i) =>
            /\ handler_calls'[i].outcome = "process_error" =>
                  /\ forwarding_queue' = forwarding_queue
                  /\ enqueue_log' = enqueue_log
                  /\ worker_pc' = worker_pc
                  /\ is_running' = is_running
                  /\ subscriptions' = subscriptions
                  /\ \A j \in 1..Len(handler_calls) :
                        j # i => handler_calls'[j] = handler_calls[j]
            /\ ( /\ RaiseCount > 0
                 /\ handler_calls'[i].outcome # "process_error"
                 /\ Records(i)
                 /\ Acceptable(handler_calls[i].message) ) =>
                  /\ handler_calls'[i].outcome = "enqueued"
                  /\ Len(forwarding_queue') = Len(forwarding_queue) + 1
                  /\ forwarding_queue'[Len(forwarding_queue')].message =
                        handler_calls[i].message
                  /\ SubSeq(forwarding_queue', 1, Len(forwarding_queue)) =
                        forwarding_queue ]_vars

\* process_message raised for the first message delivered, which has text;
\* nothing was enqueued for it, and the message delivered after it has its
\* work item
C17_Witness ==
    /\ Len(handler_calls) > 0
    /\ handler_calls[1].outcome = "process_error"
    /\ TextBearing(handler_calls[1].message)
    /\ ItemsOf(handler_calls[1].message) = <<>>
    /\ \E j \in 2..Len(handler_calls) :
          /\ handler_calls[j].message # handler_calls[1].message
          /\ handler_calls[j].outcome = "enqueued"
          /\ ItemsOf(handler_calls[j].message) # <<>>

----------------------------------------------------------------------------
(* C19: ingestion never waits on the worker.  Whatever the worker is doing *)
(* (sleeping in a backoff, in a flood wait or in forward_delay, or sending)*)
(* and however many items are queued, every suspended handler call can     *)
(* run to its end; every call that accepted its message has put the item   *)
(* on the queue by the time it ends; and the queue holds every enqueued    *)
(* item that the worker has not taken.                                     *)

Sleeping == worker_pc \in {"flood_wait", "backoff", "forward_delay"}

C19_IngestionNeverWaits ==
    /\ \A i \in 1..Len(handler_calls) :
          handler_calls[i].pc = "get_entity" => ENABLED ResumeHandler(i)
    /\ \A i \in 1..Len(handler_calls) :
          handler_calls[i].outcome = "enqueued" =>
              ItemsOf(handler_calls[i].message) # <<>>
    /\ dequeue_count <= Len(enqueue_log)
    /\ forwarding_queue = SubSeq(enqueue_log, dequeue_count + 1, Len(enqueue_log))

\* the worker sleeps in a backoff for the first item while the item of
\* another message waits in the queue and a further handler call is suspended
C19_Witness ==
    /\ worker_pc = "backoff"
    /\ dequeue_count = 1
    /\ Len(enqueue_log) = 2
    /\ forwarding_queue = << enqueue_log[2] >>
    /\ enqueue_log[2].message # worker_item.message
    /\ \E i \in 1..Len(handler_calls) : handler_calls[i].pc = "get_entity"

----------------------------------------------------------------------------
(* C15: when client.run_until_disconnected() raises, the loop sleeps 30    *)
(* seconds and does nothing else before the sleep ends; the reconnect that *)
(* follows makes a new client object and, if the session is authorized,    *)
(* registers one handler per source group and the aggregate handler on it  *)
(* and listens again; if the session is not authorized it registers        *)
(* nothing and the loop ends.                                              *)

\* the entries a step adds to run_log
NewEntries == SubSeq(run_log', Len(run_log) + 1, Len(run_log'))

Met(ev) == NewEntries # <<>> /\ NewEntries[1].ev = ev

HandlersFor(groups) ==
    [i \in 1..(Len(groups) + 1) |->
        IF i <= Len(groups) THEN {groups[i]}
        ELSE {groups[k] : k \in 1..Len(groups)}]

C15_ReconnectAfterLoss ==
    [][ /\ Met("connection_lost") =>
              /\ run_pc = "listening"
              /\ run_pc' = "sleep30"
              /\ NewEntries[Len(NewEntries)] = [ev |-> "sleep", seconds |-> 30]
              /\ client' = client
              /\ subscriptions' = subscriptions
        /\ run_pc = "sleep30" =>
              /\ run_pc' \in {"sleep30", "reconnect"}
              /\ client' = client
              /\ subscriptions' = subscriptions
        /\ Met("authorized") =>
              /\ run_pc = "reconnect"
              /\ client' = client + 1
              /\ subscriptions' = HandlersFor(config.source_groups)
              /\ run_pc' = "listening"
        /\ Met("not_authorized") =>
              /\ client' = client + 1
              /\ subscriptions' = <<>>
              /\ run_pc' = "stopped" ]_vars

\* after a lost connection and the 30 seconds the second client object has
\* the handlers and the loop listens again
C15_Witness ==
    /\ is_running
    /\ run_pc = "listening"
    /\ client = 2
    /\ subscriptions = HandlersFor(config.source_groups)
    /\ Len(run_log) >= 3
    /\ run_log[Len(run_log)].ev = "authorized"
    /\ run_log[Len(run_log) - 1] = [ev |-> "sleep", seconds |-> 30]
    /\ run_log[Len(run_log) - 2].ev = "connection_lost"

----------------------------------------------------------------------------
(* C16: the loop ends only when client.run_until_disconnected() returns or *)
(* when a reconnect finds the session not authorized.  When disconnecting  *)
(* or connecting raises during a reconnect the loop does not end: it       *)
(* sleeps 60 seconds, the sleep can always return, and the loop then       *)
(* listens again.                                                          *)
C16_StopsOnlyOnReturnOrUnauthorized ==
    [][ /\ (run_pc' = "stopped" /\ run_pc # "stopped") =>
              \/ run_pc = "listening" /\ Met("returned")
              \/ run_pc = "reconnect" /\ Met("not_authorized")
        /\ (Met("disconnect_raises") \/ Met("connect_raises")) =>
              /\ run_pc = "reconnect"
              /\ run_pc' = "sleep60"
              /\ NewEntries[Len(NewEntries)] = [ev |-> "sleep", seconds |-> 60]
        /\ run_pc = "sleep60" =>
              /\ ENABLED RunWake
              /\ run_pc' \in {"sleep60", "listening"} ]_vars

\* connecting raised during the reconnect, the 60 seconds have passed and
\* the loop listens again
C16_Witness ==
    /\ run_pc = "listening"
    /\ Len(run_log) >= 2
    /\ run_log[Len(run_log)] = [ev |-> "sleep", seconds |-> 60]
    /\ run_log[Len(run_log) - 1].ev = "connect_raises"

----------------------------------------------------------------------------
(* C18: under fair scheduling of the worker, with every transport call and *)
(* sleep returning, every work item that is enqueued is eventually taken   *)
(* by the worker and forwarded to completion: for each target the attempts *)
(* end with a success or there are max_retries failed attempts.  The       *)
(* worker takes an item only when the item before it is complete.          *)

TargetComplete(t) ==
    \/ /\ CallsTo(item_log, t) # <<>>
       /\ CallsTo(item_log, t)[Len(CallsTo(item_log, t))].result = "ok"
    \/ Len(FailedCallsTo(item_log, t)) = config.max_retries

ItemComplete ==
    /\ ItemDone
    /\ \A k \in 1..Len(config.target_groups) : TargetComplete(config.target_groups[k])

\* the k-th enqueued item has been taken and forwarded to completion
Forwarded(k) ==
    \/ dequeue_count > k
    \/ dequeue_count = k /\ ItemComplete

----------------------------------------------------------------------------
(* Calls on the MessageFilter of a constructed MessageProcessor *)

MaxAdminCalls == 3      \* calls made on the filter, or on the replacer, in a run

KwPhrase == <<"a", " ", "b">>
KwWord == <<"a">>

TxtPhrase == <<"a", " ", "b">>
TxtInside == <<"c", "a", " ", "b">>
TxtUpper == <<"A", " ", "b">>

\* the last but one text is the keyword KwWord itself
FilterTexts == {TxtPhrase, TxtInside, TxtUpper, KwWord, <<>>}

\* the filters sections config.json may hold
FilterSections ==
    { [enabled |-> e, case_sensitive |-> cs, keywords |-> ks, group_specific |-> gs] :
        e \in BOOLEAN, cs \in BOOLEAN,
        ks \in { <<>>, <<KwPhrase>>, <<KwWord, KwPhrase>>, <<KwPhrase, KwPhrase>> },
        gs \in { [g \in {} |-> <<>>],
                 [g \in {Src2} |-> [enabled |-> TRUE, keywords |-> <<>>]],
                 [g \in {Src2} |-> [enabled |-> TRUE, keywords |-> <<KwPhrase>>]] } }

BaseConfig == CHOOSE c \in Configs : c.max_retries = 1 /\ c.forward_delay = 0

FilterConfigs == { [BaseConfig EXCEPT !.filters = f] : f \in FilterSections }

\* the variables of the relay, which calls on the filter and the replacer
\* leave alone
relay_vars == <<processed_message_ids, older_ids, forwarding_queue, is_running,
                subscriptions, handler_calls, worker_pc, worker_item, target_idx,
                retries, item_log, enqueue_log, dequeue_count, failures, limits,
                client, run_pc, run_log, task_done_count>>

InitFilter ==
    \E c \in FilterConfigs :
        InitRun([config |-> c, older |-> 0, events |-> 0, failures |-> 0, raises |-> 0])

\* an entry of admin_log: the call, the configuration and the caches it
\* found, and what it returned (result for a truth value, out for a text)
AdminEntry(op, text, group, result, out) ==
    [op |-> op, text |-> text, group |-> group, result |-> result, out |-> out,
     config |-> config, patterns |-> compiled_patterns,
     compiled |-> compiled_replacements, file |-> config_file]

PassesKeywordFilter(text, source_group_id) ==
    /\ Len(admin_log) < MaxAdminCalls
    /\ LET r == passes_keyword_filter(config, compiled_patterns, text, source_group_id)
       IN  /\ compiled_patterns' = r.patterns
           /\ admin_log' = Append(admin_log,
                  AdminEntry("passes_keyword_filter", text, source_group_id, r.result, NoneText))
    /\ UNCHANGED <<config, compiled_replacements, config_file, relay_vars>>

\* Config.add_keyword (the definition in force, lines 155-160)
add_keyword(c, keyword, saved) ==
    IF ~InSeq(keyword, c.filters.keywords)
    THEN [config |-> [c EXCEPT !.filters.keywords = Append(@, keyword)],
          result |-> saved, written |-> saved]
    ELSE [config |-> c, result |-> TRUE, written |-> FALSE]

\* MessageFilter.add_keyword_filter
add_keyword_filter(c, patterns, keyword, saved) ==
    LET r == add_keyword(c, keyword, saved)
    IN  [config |-> r.config,
         patterns |-> IF r.result THEN update_patterns(r.config) ELSE patterns,
         result |-> r.result, written |-> r.written]

\* list.remove(x): the first occurrence goes
RECURSIVE ListRemove(_, _)
ListRemove(s, x) ==
    IF s = <<>> THEN <<>>
    ELSE IF Head(s) = x THEN Tail(s) ELSE <<Head(s)>> \o ListRemove(Tail(s), x)

\* MessageFilter.remove_keyword_filter; saved is what save_config()
\* returned, which the method does not look at
remove_keyword_filter(c, patterns, keyword, saved) ==
    IF InSeq(keyword, c.filters.keywords)
    THEN LET c2 == [c EXCEPT !.filters.keywords = ListRemove(@, keyword)]
         IN  [config |-> c2, patterns |-> update_patterns(c2), result |-> TRUE,
              written |-> saved]
    ELSE [config |-> c, patterns |-> patterns, result |-> FALSE, written |-> FALSE]

AddKeywordFilter(keyword, saved) ==
    /\ Len(admin_log) < MaxAdminCalls
    /\ LET r == add_keyword_filter(config, compiled_patterns, keyword, saved)
       IN  /\ config' = r.config
           /\ compiled_patterns' = r.patterns
           /\ config_file' = IF r.written THEN r.config ELSE config_file
           /\ admin_log' = Append(admin_log,
                  AdminEntry("add_keyword_filter", keyword, NoGroup, r.result, NoneText))
    /\ UNCHANGED <<compiled_replacements, relay_vars>>

RemoveKeywordFilter(keyword, saved) ==
    /\ Len(admin_log) < MaxAdminCalls
    /\ LET r == remove_keyword_filter(config, compiled_patterns, keyword, saved)
       IN  /\ config' = r.config
           /\ config_file' = IF r.written THEN r.config ELSE config_file
           /\ compiled_patterns' = r.patterns
           /\ admin_log' = Append(admin_log,
                  AdminEntry("remove_keyword_filter", keyword, NoGroup, r.result, NoneText))
    /\ UNCHANGED <<compiled_replacements, relay_vars>>

NextFilter ==
    \/ \E text \in FilterTexts, g \in {Src1, Src2} : PassesKeywordFilter(text, g)
    \/ \E saved \in BOOLEAN : AddKeywordFilter(KwWord, saved)
    \/ \E saved \in BOOLEAN : RemoveKeywordFilter(KwWord, saved)

SpecFilter == InitFilter /\ [][NextFilter]_vars

----------------------------------------------------------------------------
(* Calls on the processor and on the TextReplacer of a constructed           *)
(* MessageProcessor                                                          *)

RuleA == << <<"EMOJI", "a">>, <<"X">> >>        \* cleaned old text: a
RuleB == << <<"b">>, <<"c">> >>
RuleC == << <<"c">>, <<"X", "X">> >>

TxtLines == <<"a", "NL", "a">>

ReplaceTexts == {TxtAlert, TxtPlain, TxtLines}

\* a filters section that lets none of ReplaceTexts through, and one with
\* filtering switched off
BlockingFilters ==
    [enabled |-> TRUE, case_sensitive |-> FALSE, keywords |-> <<KwPhrase>>,
     group_specific |-> [g \in {Src2} |-> [enabled |-> TRUE, keywords |-> <<>>]]]

NoFilters ==
    [enabled |-> FALSE, case_sensitive |-> FALSE, keywords |-> <<>>,
     group_specific |-> [g \in {} |-> <<>>]]

ReplaceConfigs ==
    { [BaseConfig EXCEPT !.text_replacements = rules,
                         !.group_specific_replacements = grp,
                         !.enable_text_processing = etp,
                         !.filters = f] :
        rules \in { <<>>, <<RuleA, RuleB>>, <<RuleB, RuleA>> },
        grp \in { [g \in {} |-> <<>>], [g \in {Src2} |-> <<RuleC>>] },
        etp \in BOOLEAN,
        f \in {BlockingFilters, NoFilters} }

InitReplace ==
    \E c \in ReplaceConfigs :
        InitRun([config |-> c, older |-> 0, events |-> 0, failures |-> 0, raises |-> 0])

\* a text message of the chat source_group_id
TextMessage(text, source_group_id) ==
    [id |-> 1, chat_id |-> source_group_id, text |-> text, caption |-> <<>>,
     media |-> FALSE]

ProcessMessage(text, source_group_id) ==
    /\ Len(admin_log) < MaxAdminCalls
    /\ admin_log' = Append(admin_log,
           AdminEntry("process_message", text, source_group_id, TRUE,
                      process_message(config, TextMessage(text, source_group_id),
                                      source_group_id)))
    /\ UNCHANGED <<config, compiled_patterns, compiled_replacements, config_file,
                   relay_vars>>

ReplaceText(text) ==
    /\ Len(admin_log) < MaxAdminCalls
    /\ LET r == replace_text(config, compiled_replacements, text)
       IN  /\ compiled_replacements' = r.compiled
           /\ admin_log' = Append(admin_log,
                  AdminEntry("replace_text", text, NoGroup, TRUE, r.result))
    /\ UNCHANGED <<config, compiled_patterns, config_file, relay_vars>>

AddReplacement(old_text, new_text, saved) ==
    /\ Len(admin_log) < MaxAdminCalls
    /\ LET r == add_replacement(config, compiled_replacements, old_text, new_text, saved)
       IN  /\ config' = r.config
           /\ config_file' = IF r.written THEN r.config ELSE config_file
           /\ compiled_replacements' = r.compiled
           /\ admin_log' = Append(admin_log,
                  AdminEntry("add_replacement", old_text, NoGroup, r.result, new_text))
    /\ UNCHANGED <<compiled_patterns, relay_vars>>

RemoveReplacement(old_text, saved) ==
    /\ Len(admin_log) < MaxAdminCalls
    /\ LET r == remove_replacement(config, compiled_replacements, old_text, saved)
       IN  /\ config' = r.config
           /\ config_file' = IF r.written THEN r.config ELSE config_file
           /\ compiled_replacements' = r.compiled
           /\ admin_log' = Append(admin_log,
                  AdminEntry("remove_replacement", old_text, NoGroup, r.result, NoneText))
    /\ UNCHANGED <<compiled_patterns, relay_vars>>

NextReplace ==
    \/ \E text \in ReplaceTexts, g \in {Src1, Src2} : ProcessMessage(text, g)
    \/ \E text \in ReplaceTexts : ReplaceText(text)
    \/ \E saved \in BOOLEAN : AddReplacement(RuleA[1], <<"c">>, saved)
    \/ \E saved \in BOOLEAN : RemoveReplacement(RuleA[1], saved)

SpecReplace == InitReplace /\ [][NextReplace]_vars

----------------------------------------------------------------------------
(* Reading admin_log *)

AdminCalls(op) == {i \in 1..Len(admin_log) : admin_log[i].op = op}

\* the text process_message extracts from the message of entry e
ExtractedOf(e) == extract_message_text(TextMessage(e.text, e.group))

----------------------------------------------------------------------------
----------------------------------------------------------------------------
\* the group-specific filter entry the call of entry e finds for its group:
\* does one exist and is it enabled
GroupEntryEnabled(e) ==
    /\ e.group \in DOMAIN e.config.filters.group_specific
    /\ e.config.filters.group_specific[e.group].enabled

GroupKeywords(e) == e.config.filters.group_specific[e.group].keywords

\* C22: when the source group has a group-specific filter entry that is
\* enabled and whose keyword list is empty, passes_keyword_filter returns
\* false for every text, whatever the global filter configuration is.
C22_EmptyGroupListBlocks ==
    \A i \in AdminCalls("passes_keyword_filter") :
        LET e == admin_log[i]
        IN  GroupEntryEnabled(e) /\ GroupKeywords(e) = <<>> => ~e.result

\* a non-empty text was rejected under an empty group list while global
\* filtering is switched off
C22_Witness ==
    \E i \in AdminCalls("passes_keyword_filter") :
        LET e == admin_log[i]
        IN  /\ GroupEntryEnabled(e) /\ GroupKeywords(e) = <<>>
            /\ e.text # <<>>
            /\ ~e.config.filters.enabled
            /\ ~e.result

----------------------------------------------------------------------------
\* the configurations that differ from c at most in the global enabled flag
\* and the global keyword list
GlobalVariants(c) ==
    { [c EXCEPT !.filters.enabled = en, !.filters.keywords = ks] :
        en \in BOOLEAN,
        ks \in { <<>>, <<KwPhrase>>, <<KwWord>>, <<KwWord, KwPhrase>> } }

\* C23: when the source group has an enabled group-specific entry with a
\* non-empty keyword list, the result of passes_keyword_filter depends only
\* on the text and that list: a configuration that differs only in the
\* global enabled flag or the global keyword list gives the same result.
C23_GroupListAloneDecides ==
    \A i \in AdminCalls("passes_keyword_filter") :
        LET e == admin_log[i]
        IN  GroupEntryEnabled(e) /\ GroupKeywords(e) # <<>> =>
                \A c2 \in GlobalVariants(e.config) :
                    passes_keyword_filter(c2, update_patterns(c2), e.text, e.group).result
                        = e.result

\* a call decided by a non-empty group list came out differently from what
\* the global settings alone give for the same text
C23_Witness ==
    \E i \in AdminCalls("passes_keyword_filter") :
        LET e == admin_log[i]
        IN  /\ GroupEntryEnabled(e) /\ GroupKeywords(e) # <<>>
            /\ e.result
            /\ ~global_filter(e.config, e.patterns, e.text).result

----------------------------------------------------------------------------
\* the matching rule the claim states for one keyword
StatedMatch(c, keyword, text) ==
    IF InSeq(" ", keyword)
    THEN IF c.filters.case_sensitive
         THEN Contains(keyword, text)
         ELSE Contains(lower(keyword), lower(text))
    ELSE word_search(keyword, ~c.filters.case_sensitive, text)

\* global filtering applies to the call of entry e
GlobalFilteringApplies(e) ==
    /\ ~GroupEntryEnabled(e)
    /\ e.config.filters.enabled
    /\ e.config.filters.keywords # <<>>
    /\ e.text # <<>>

\* C24: when global filtering applies (enabled, non-empty keyword list,
\* non-empty text, no group-specific override), passes_keyword_filter matches
\* a keyword that contains a space by substring containment and a keyword
\* without a space by word-boundary match, case-insensitively unless
\* case_sensitive is set, and returns true exactly when at least one keyword
\* matches.
C24_GlobalMatching ==
    \A i \in AdminCalls("passes_keyword_filter") :
        LET e == admin_log[i]
            keywords == e.config.filters.keywords
        IN  GlobalFilteringApplies(e) =>
                (e.result <=> \E k \in 1..Len(keywords) :
                                  StatedMatch(e.config, keywords[k], e.text))

----------------------------------------------------------------------------
\* entries i < j are calls of passes_keyword_filter with the same text and
\* group, and nothing but such calls was made from i to j
RepeatedCall(i, j) ==
    /\ i < j
    /\ \A k \in i..j : admin_log[k].op = "passes_keyword_filter"
    /\ admin_log[i].text = admin_log[j].text
    /\ admin_log[i].group = admin_log[j].group

\* C25: with the configuration held fixed, repeated calls of
\* passes_keyword_filter with the same text and source group return the same
\* result, the first call after a refresh of the pattern cache included.
C25_FilterDeterministic ==
    \A i, j \in 1..Len(admin_log) :
        RepeatedCall(i, j) =>
            /\ admin_log[i].config = admin_log[j].config
            /\ admin_log[i].result = admin_log[j].result

\* the first of two repeated calls found a cache that did not match the
\* keyword list and refreshed it
C25_Witness ==
    \E i, j \in 1..Len(admin_log) :
        /\ RepeatedCall(i, j)
        /\ GlobalFilteringApplies(admin_log[i])
        /\ admin_log[i].patterns # update_patterns(admin_log[i].config)
        /\ admin_log[j].patterns = update_patterns(admin_log[j].config)
        /\ admin_log[i].result = admin_log[j].result

----------------------------------------------------------------------------
\* the rules that apply to the call of entry e: the group's when it has any,
\* else the global ones
ApplicableRules(e) ==
    IF e.group \in DOMAIN e.config.group_specific_replacements
       /\ e.config.group_specific_replacements[e.group] # <<>>
    THEN e.config.group_specific_replacements[e.group]
    ELSE e.config.text_replacements

CleanOf(e) == remove_emojis(ExtractedOf(e))

\* the positions of the applicable rules whose cleaned old text occurs in
\* the cleaned text
MatchingRules(e) ==
    {k \in 1..Len(ApplicableRules(e)) :
        Contains(remove_emojis(ApplicableRules(e)[k][1]), CleanOf(e))}

FirstMatching(e) ==
    CHOOSE k \in MatchingRules(e) : \A k2 \in MatchingRules(e) : k <= k2

\* entry e is a call of process_message on a message with text, with text
\* processing enabled
Processed(e) ==
    /\ e.op = "process_message"
    /\ ExtractedOf(e) # <<>>
    /\ e.config.enable_text_processing

\* C26: with text processing enabled at most one replacement rule is
\* applied: the first in insertion order whose cleaned old text is contained
\* in the cleaned text; later rules are not applied.
C26_FirstRuleOnly ==
    \A i \in AdminCalls("process_message") :
        LET e == admin_log[i]
        IN  Processed(e) /\ MatchingRules(e) # {} =>
                LET rule == ApplicableRules(e)[FirstMatching(e)]
                IN  e.out = str_replace(CleanOf(e), remove_emojis(rule[1]), rule[2])

\* two rules matched, the first was applied, and the second still matches
\* the text returned
C26_Witness ==
    \E i \in AdminCalls("process_message") :
        LET e == admin_log[i]
        IN  /\ Processed(e)
            /\ Cardinality(MatchingRules(e)) >= 2
            /\ \E k \in MatchingRules(e) :
                   /\ k # FirstMatching(e)
                   /\ Contains(remove_emojis(ApplicableRules(e)[k][1]), e.out)

----------------------------------------------------------------------------
\* the source group of entry e has group-specific replacement rules
HasGroupRules(e) ==
    /\ e.group \in DOMAIN e.config.group_specific_replacements
    /\ e.config.group_specific_replacements[e.group] # <<>>

\* a global rule's cleaned old text occurs in the cleaned text of entry e
GlobalRuleMatches(e) ==
    \E k \in 1..Len(e.config.text_replacements) :
        Contains(remove_emojis(e.config.text_replacements[k][1]), CleanOf(e))

\* C27: when group-specific replacement rules exist for the source group,
\* the global rules are never applied, even if no group rule matches; the
\* text is then returned unmodified.
C27_GroupRulesExcludeGlobal ==
    \A i \in AdminCalls("process_message") :
        LET e == admin_log[i]
        IN  Processed(e) /\ HasGroupRules(e) =>
                IF MatchingRules(e) = {}
                THEN e.out = ExtractedOf(e)
                ELSE LET rule == e.config.group_specific_replacements[e.group][FirstMatching(e)]
                     IN  e.out = str_replace(CleanOf(e), remove_emojis(rule[1]), rule[2])

\* no rule of the group matched a text that a global rule matches, and the
\* text came back as it was
C27_Witness ==
    \E i \in AdminCalls("process_message") :
        LET e == admin_log[i]
        IN  /\ Processed(e) /\ HasGroupRules(e)
            /\ MatchingRules(e) = {}
            /\ GlobalRuleMatches(e)
            /\ e.out = ExtractedOf(e)

----------------------------------------------------------------------------
\* C28: if no applicable rule's cleaned old text occurs in the cleaned text,
\* the text returned for forwarding is exactly the extracted original text,
\* decorative symbols preserved.
C28_NoMatchKeepsOriginal ==
    \A i \in AdminCalls("process_message") :
        LET e == admin_log[i]
        IN  /\ ExtractedOf(e) # <<>>
            /\ (e.config.enable_text_processing => MatchingRules(e) = {})
            => e.out = ExtractedOf(e)

\* rules were configured, none matched a text that carries a decorative
\* symbol, and the text came back with the symbol
C28_Witness ==
    \E i \in AdminCalls("process_message") :
        LET e == admin_log[i]
        IN  /\ Processed(e)
            /\ ApplicableRules(e) # <<>>
            /\ MatchingRules(e) = {}
            /\ InSeq("EMOJI", e.out)
            /\ e.out = ExtractedOf(e)

----------------------------------------------------------------------------
\* the first line of lines that contains pat
FirstLineWith(lines, pat) ==
    CHOOSE p \in 1..Len(lines) :
        /\ Contains(pat, lines[p])
        /\ \A q \in 1..(p - 1) : ~Contains(pat, lines[q])

\* C29: when a global replacement rule matches, the substitution is made
\* only inside the first line that contains the cleaned pattern; every other
\* line, a later line that also contains the pattern included, is left
\* without substitution.
C29_FirstLineOnly ==
    \A i \in AdminCalls("process_message") :
        LET e == admin_log[i]
        IN  Processed(e) /\ ~HasGroupRules(e) /\ MatchingRules(e) # {} =>
                LET pat == remove_emojis(e.config.text_replacements[FirstMatching(e)][1])
                    lines == Split(CleanOf(e))
                    out_lines == Split(e.out)
                    p == FirstLineWith(lines, pat)
                IN  /\ Len(out_lines) = Len(lines)
                    /\ \A q \in 1..Len(lines) : q # p => out_lines[q] = lines[q]

----------------------------------------------------------------------------
\* the configuration the call of entry i left behind
ConfigAfter(i) ==
    IF i = Len(admin_log) THEN config ELSE admin_log[i + 1].config

\* entry i is add_replacement(key, value) and entry i + 1 is
\* remove_replacement(key)
AddThenRemove(i) ==
    /\ i + 1 <= Len(admin_log)
    /\ admin_log[i].op = "add_replacement"
    /\ admin_log[i + 1].op = "remove_replacement"
    /\ admin_log[i + 1].text = admin_log[i].text

\* C30: for every replacement mapping and every key, add_replacement(key,
\* value) followed by remove_replacement(key) leaves the replacement mapping
\* equal to its state before the add.
C30_RoundTrip ==
    \A i \in 1..Len(admin_log) :
        AddThenRemove(i) =>
            ConfigAfter(i + 1).text_replacements = admin_log[i].config.text_replacements

\* C30, amended: the mapping is restored when the key was not in it before
\* the add; when the key was in it, the pair leaves the mapping without that
\* key.
C30_RoundTripNewKey ==
    \A i \in 1..Len(admin_log) :
        AddThenRemove(i) =>
            LET before == admin_log[i].config.text_replacements
                after == ConfigAfter(i + 1).text_replacements
            IN  IF HasKey(before, admin_log[i].text)
                THEN after = DictDel(before, admin_log[i].text)
                ELSE after = before

\* a rule was added under a new key to a mapping that holds another rule,
\* then removed, and the mapping is as before
C30_Witness ==
    \E i \in 1..Len(admin_log) :
        /\ AddThenRemove(i)
        /\ admin_log[i].config.text_replacements # <<>>
        /\ ~HasKey(admin_log[i].config.text_replacements, admin_log[i].text)
        /\ HasKey(admin_log[i + 1].config.text_replacements, admin_log[i].text)
        /\ admin_log[i + 1].result
        /\ ConfigAfter(i + 1).text_replacements = admin_log[i].config.text_replacements

-----------------------------------------------------------------------------
(* The settings of a relay that is running *)

SettingsValid(c) ==
    /\ c.forward_delay >= 0
    /\ c.max_retries >= 1
    /\ c.source_groups # <<>>
    /\ c.target_groups # <<>>

\* C31: in every reachable state in which the relay is running, that is,
\* subscriptions are registered or the worker is forwarding an item, the
\* configuration has forward_delay >= 0, max_retries >= 1 and non-empty
\* source and target group lists.
C31_RunningSettingsValid ==
    (subscriptions # <<>> \/ Forwarding) => SettingsValid(config)

-----------------------------------------------------------------------------
(* The pattern cache of the filter *)

\* the pattern cache the i-th recorded call left behind
PatternsAfter(i) ==
    IF i < Len(admin_log) THEN admin_log[i + 1].patterns ELSE compiled_patterns

\* the call reaches the refresh of lines 89-93
ReachesRefresh(e) ==
    /\ e.op = "passes_keyword_filter"
    /\ GlobalFilteringApplies(e)
    /\ e.text # <<>>

\* C32: a use of the filter recompiles the pattern cache exactly when the
\* number of cached patterns differs from the number of configured global
\* keywords; otherwise the cached patterns, stale or not, stay and decide
\* the result.
C32_RefreshByCount ==
    \A i \in 1..Len(admin_log) :
        LET e == admin_log[i]
            current == IF Len(e.patterns) # Len(e.config.filters.keywords)
                       THEN update_patterns(e.config) ELSE e.patterns
        IN  ReachesRefresh(e) =>
                /\ PatternsAfter(i) = current
                /\ e.result = (\E k \in 1..Len(current) : pattern_search(current[k], e.text))

-----------------------------------------------------------------------------
(* Administrative mutations of the configuration: each changes the dict in   *)
(* memory and calls save_config(), which writes the whole dict to the file   *)
(* and returns False when the write raises.                                  *)

\* Config.add_source_group
add_source_group(c, group_id, saved) ==
    IF ~InSeq(group_id, c.source_groups)
    THEN [config |-> [c EXCEPT !.source_groups = Append(@, group_id)],
          result |-> saved, written |-> saved]
    ELSE [config |-> c, result |-> TRUE, written |-> FALSE]

\* Config.add_target_group
add_target_group(c, group_id, saved) ==
    IF ~InSeq(group_id, c.target_groups)
    THEN [config |-> [c EXCEPT !.target_groups = Append(@, group_id)],
          result |-> saved, written |-> saved]
    ELSE [config |-> c, result |-> TRUE, written |-> FALSE]

\* a call of a Config method that returned r
ConfigCall(op, text, group, r) ==
    /\ config' = r.config
    /\ config_file' = IF r.written THEN r.config ELSE config_file
    /\ admin_log' = Append(admin_log, AdminEntry(op, text, group, r.result, NoneText))
    /\ UNCHANGED <<compiled_patterns, compiled_replacements, relay_vars>>

ConfigAddKeyword(keyword, saved) ==
    /\ Len(admin_log) < MaxAdminCalls
    /\ ConfigCall("add_keyword", keyword, NoGroup, add_keyword(config, keyword, saved))

ConfigAddTextReplacement(old_text, new_text, saved) ==
    /\ Len(admin_log) < MaxAdminCalls
    /\ ConfigCall("add_text_replacement", old_text, NoGroup,
                  [config |-> add_text_replacement(config, old_text, new_text),
                   result |-> saved, written |-> saved])

AddSourceGroup(group_id, saved) ==
    /\ Len(admin_log) < MaxAdminCalls
    /\ ConfigCall("add_source_group", NoneText, group_id,
                  add_source_group(config, group_id, saved))

AddTargetGroup(group_id, saved) ==
    /\ Len(admin_log) < MaxAdminCalls
    /\ ConfigCall("add_target_group", NoneText, group_id,
                  add_target_group(config, group_id, saved))

ConfigConfigs ==
    { BaseConfig,
      [BaseConfig EXCEPT !.filters.keywords = <<KwWord, KwPhrase>>,
                         !.text_replacements = <<RuleA, RuleB>>] }

InitConfig ==
    \E c \in ConfigConfigs :
        InitRun([config |-> c, older |-> 0, events |-> 0, failures |-> 0, raises |-> 0])

NextConfig ==
    \/ \E saved \in BOOLEAN : ConfigAddKeyword(KwWord, saved)
    \/ \E saved \in BOOLEAN : ConfigAddTextReplacement(RuleA[1], RuleA[2], saved)
    \/ \E g \in {Src2, Unlisted}, saved \in BOOLEAN : AddSourceGroup(g, saved)
    \/ \E g \in {Tgt2, Unlisted}, saved \in BOOLEAN : AddTargetGroup(g, saved)
    \/ \E saved \in BOOLEAN : RemoveKeywordFilter(KwWord, saved)
    \/ \E saved \in BOOLEAN : RemoveReplacement(RuleA[1], saved)

SpecConfig == InitConfig /\ [][NextConfig]_vars

Mutations ==
    {"add_keyword", "add_text_replacement", "add_source_group", "add_target_group",
     "remove_keyword_filter", "remove_replacement"}

\* the document in the file when the call of entry i returned
FileAfter(i) ==
    IF i = Len(admin_log) THEN config_file ELSE admin_log[i + 1].file

\* C33: when an administrative mutation (add_keyword, add_text_replacement,
\* add_source_group, add_target_group, remove_keyword_filter,
\* remove_replacement) has returned, the configuration in memory equals the
\* document in the file, and a mutation that reports failure has left the
\* configuration in memory as it found it.
C33_MemoryEqualsFile ==
    \A i \in 1..Len(admin_log) :
        LET e == admin_log[i]
        IN  e.op \in Mutations =>
                /\ ConfigAfter(i) = FileAfter(i)
                /\ ~e.result => ConfigAfter(i) = e.config

-----------------------------------------------------------------------------
(* A start() that fails on the session or on the configuration *)

\* C34: when the session is not authorized or validate_config reports an
\* error, start() returns False and leaves no subscription registered, no
\* forwarding worker started and the running flag false; a start() that
\* returns True has found the session authorized and no error.
C34_FailedStartSetsNothingUp ==
    [][ /\ (Met("start_not_authorized") \/ Met("start_config_errors")) =>
            /\ run_pc' = "start_failed"
            /\ subscriptions' = <<>>
            /\ worker_pc' = "not_started"
            /\ ~is_running'
        /\ (run_pc = "init" /\ validate_config(config) # {}) => run_pc' # "started"
      ]_vars

C34_Witness ==
    /\ run_pc = "start_failed"
    /\ run_log # <<>>
    /\ run_log[Len(run_log)].ev = "start_config_errors"
    /\ validate_config(config) # {}
    /\ subscriptions = <<>> /\ worker_pc = "not_started" /\ ~is_running

-----------------------------------------------------------------------------
(* Subscriptions and the worker task *)

\* C35: in every reachable state in which event subscriptions are registered
\* on the active client, one forwarding worker task is running, also after
\* reconnects and when run_until_disconnected was entered after a start()
\* that returned False.
C35_SubscribedImpliesWorker ==
    subscriptions # <<>> => (worker_pc # "not_started" /\ is_running)

-----------------------------------------------------------------------------
(* The running flag and the worker after the run loop has ended *)

-----------------------------------------------------------------------------
(* The worker when an exception escapes _forward_message *)

\* variant: the except branch does not call task_done
on_worker_exception_no_done ==
    [pc |-> "error_pause", task_done |-> 0,
     sleep |-> << SleepEntry("error_pause", 0, 1) >>]

\* lines 268-271: the exception is logged, task_done() is called and the
\* worker sleeps one second before the while test
on_worker_exception ==
    [pc |-> "error_pause", task_done |-> 1,
     sleep |-> << SleepEntry("error_pause", 0, 1) >>]

\* an exception leaves _forward_message during an attempt (raised outside its
\* try block or inside one of its except branches) and reaches line 268
WorkerRaises ==
    /\ worker_pc = "attempt"
    /\ failures < limits.failures
    /\ failures' = failures + 1
    /\ worker_pc' = on_worker_exception.pc
    /\ task_done_count' = task_done_count + on_worker_exception.task_done
    /\ item_log' = item_log \o on_worker_exception.sleep
    /\ UNCHANGED <<client, run_pc, run_log, config, processed_message_ids, older_ids,
                   forwarding_queue, is_running, subscriptions, handler_calls,
                   worker_item, target_idx, retries, enqueue_log, dequeue_count,
                   limits, compiled_patterns, compiled_replacements, admin_log,
                   config_file>>

\* the sleep of line 271 returns and the loop starts over
WorkerResume ==
    /\ worker_pc = "error_pause"
    /\ worker_pc' = "get"
    /\ UNCHANGED <<client, run_pc, run_log, config, processed_message_ids, older_ids,
                   forwarding_queue, is_running, subscriptions, handler_calls,
                   worker_item, target_idx, retries, item_log, enqueue_log,
                   dequeue_count, failures, limits, compiled_patterns,
                   compiled_replacements, admin_log, config_file, task_done_count>>

\* the configurations of the fair runs, with and without a forward delay
InitWorker ==
    \E c \in FairConfigs \cup { [x EXCEPT !.forward_delay = 0] : x \in FairConfigs } :
        InitRun([config |-> c, older |-> 0, events |-> MaxEvents, failures |-> 2,
                 raises |-> 0])

NextWorker ==
    \/ Next
    \/ WorkerRaises
    \/ WorkerResume

SpecWorker == InitWorker /\ [][NextWorker]_vars

\* the worker holds an item it has dequeued and not yet marked done
HoldsItem == worker_pc \in {"attempt", "flood_wait", "backoff", "forward_delay"}

WorkerPositions ==
    {"get", "attempt", "flood_wait", "backoff", "forward_delay", "error_pause"}

\* C37: the worker calls task_done exactly once for each item it dequeued, on
\* the normal path and on the exception path alike: the number of task_done
\* calls never exceeds the number of dequeued items and equals it whenever
\* the worker holds no item, and after an exception the worker is still in
\* its loop.
C37_TaskDoneOncePerItem ==
    /\ task_done_count <= dequeue_count
    /\ task_done_count = dequeue_count - (IF HoldsItem THEN 1 ELSE 0)
    /\ is_running => worker_pc \in WorkerPositions

\* the first item went the normal way, the second one met an exception, and
\* the worker is back at the queue
C37_Witness ==
    /\ worker_pc = "get"
    /\ dequeue_count = 2
    /\ task_done_count = 2
    /\ SleepsOf(item_log, "error_pause") # <<>>

-----------------------------------------------------------------------------
(* Messages that carry media *)

MediaMessages ==
    { [id |-> 1, chat_id |-> Src1, text |-> TxtBlank, caption |-> <<>>, media |-> TRUE],
      [id |-> 2, chat_id |-> Src1, text |-> <<>>, caption |-> <<>>, media |-> TRUE],
      [id |-> 1, chat_id |-> Src2, text |-> TxtPlain, caption |-> <<>>, media |-> TRUE],
      [id |-> 3, chat_id |-> Src2, text |-> TxtBlank, caption |-> <<>>, media |-> FALSE],
      [id |-> 4, chat_id |-> Unlisted, text |-> <<>>, caption |-> <<>>, media |-> TRUE] }

\* the setting enable_media_forwarding on and off
MediaConfigs ==
    { [BaseConfig EXCEPT !.enable_media_forwarding = emf] : emf \in BOOLEAN }

InitMedia ==
    \E c \in MediaConfigs :
        InitRun([config |-> c, older |-> 0, events |-> MaxEvents, failures |-> 1,
                 raises |-> 1])

NextMedia ==
    \/ Start
    \/ \E m \in MediaMessages : Deliver(m)
    \/ \E m \in MediaMessages : CallUnlisted(m)
    \/ \E i \in 1..Len(handler_calls) : ResumeHandler(i)
    \/ WorkerGet
    \/ \E s \in FloodSeconds : WorkerAttempt("flood", s)
    \/ \E r \in {"ok", "error"} : WorkerAttempt(r, 0)
    \/ WorkerWake

SpecMedia == InitMedia /\ [][NextMedia]_vars

\* C38: a handler call for a new message of a configured source group
\* enqueues nothing only if the message has no media and its extracted text
\* is empty, or processing raised; a message that carries media yields a work
\* item unless processing raised.
C38_DropOnlyWithoutContent ==
    [][ \A i \in 1..Len(handler_calls) :
          (Records(i) /\ enqueue_log' = enqueue_log) =>
              \/ handler_calls'[i].outcome = "process_error"
              \/ /\ ~handler_calls[i].message.media
                 /\ extract_message_text(handler_calls[i].message) = <<>> ]_vars

\* C39: when the setting enable_media_forwarding is false, no media-only
\* work item is enqueued and the transport's forward operation is never
\* called.
C39_MediaForwardingOff ==
    ~config.enable_media_forwarding =>
        /\ \A k \in 1..Len(enqueue_log) : ~enqueue_log[k].is_media_only
        /\ \A k \in 1..Len(item_log) : item_log[k].op # "forward_messages"

-----------------------------------------------------------------------------
(* add_keyword_filter *)

\* C40: add_keyword_filter(k) returns False and leaves the global keyword
\* list and the compiled patterns as they were when k is already in the
\* list, and returns True with k appended once when k is new; after the call
\* the compiled patterns are those of the configured keywords, one for each.
C40_AddKeywordFilter ==
    \A i \in 1..Len(admin_log) :
        LET e == admin_log[i]
            before == e.config.filters.keywords
            after == ConfigAfter(i).filters.keywords
        IN  e.op = "add_keyword_filter" =>
                /\ InSeq(e.text, before) =>
                      /\ ~e.result
                      /\ after = before
                      /\ PatternsAfter(i) = e.patterns
                /\ ~InSeq(e.text, before) =>
                      /\ e.result
                      /\ after = Append(before, e.text)
                /\ PatternsAfter(i) = update_patterns(ConfigAfter(i))

====
